---- MODULE Spec2Model ----
(***************************************************************************)
(* AVAS40 WavConverter: the WAV -> FLAC -> record -> merged image pipeline *)
(* of src/processing.py, src/audio_processor.py and src/main_window.py,    *)
(* with the legacy single-file converter src/AVAS40_WavConverter.py.       *)
(*                                                                         *)
(* Byte containers.  An IntelHex object is a dictionary address -> byte    *)
(* filled by assignments ih[a] = v.  It is modelled by the log of those    *)
(* assignments, the last write to an address winning.  A loop that writes  *)
(* the same byte to consecutive addresses is logged as one run             *)
(* [addr, n, b]: "n copies of b from addr".  Byte strings (a FLAC payload) *)
(* are sequences of runs [n, b] in the same way, so that an image of       *)
(* 884736 bytes and a payload that overflows it are ordinary values.       *)
(***************************************************************************)
EXTENDS Integers, Sequences, FiniteSets, TLC

(***************************************************************************)
(* Bounds of the model (not program constants).                            *)
(***************************************************************************)
\* The user edits the sound-position fields 1..MaxEditedSlot of the dialog;
\* the other fields keep the text the dialog was opened with.
MaxEditedSlot == 2
\* Number of times "Generate Files" is pressed in one behaviour.
MaxRuns == 2
\* runs of equal bytes in a payload handed to create_hex_data on its own
MaxPayloadRuns == 2
\* frames of a WAV file handed to the conversion on its own
MaxFrames == 4
\* merges asked of one merger
MaxMerges == 2

(***************************************************************************)
(* utils.AudioConstants                                                    *)
(***************************************************************************)
MAGIC_KEY == 1520786085                \* 0x5AA55AA5
ENGINE_HEADER_SIZE == 44
EVENT_HEADER_SIZE == 8
FILENAME_BUFFER_SIZE == 80
WORD_ALIGNMENT == 4
FLAC_SIZE_OFFSET == 0
ENGINE_FILENAME_OFFSET == 4
ENGINE_FLAC_DATA_OFFSET == 84          \* 0x0054
EVENT_FLAC_DATA_OFFSET == 4
\* int(864.0 * 1024) of HexMerger._merge_engine_data
HEX_FILE_SIZE_BYTES == 884736
\* the number of position fields of the dialog (["FFFFFFFF"] * 10)
NUM_POSITIONS == 10

(***************************************************************************)
(* Small arithmetic helpers.                                               *)
(***************************************************************************)
SetMin(S) == CHOOSE x \in S : \A y \in S : x <= y
SetMax(S) == CHOOSE x \in S : \A y \in S : y <= x

\* the numbers of S in increasing order
SortedSet(S) ==
    LET rank == [x \in S |-> Cardinality({y \in S : y < x})]
    IN  [k \in 1..Cardinality(S) |-> CHOOSE x \in S : rank[x] = k - 1]

\* (x >> (8*k)) & 0xFF
ByteOf(x, k) == (x \div (256 ^ k)) % 256

(***************************************************************************)
(* IntelHex: the dictionary as the log of its assignments.                 *)
(***************************************************************************)
\* ih[a] = v
IHSet(ih, a, v) == Append(ih, [addr |-> a, n |-> 1, b |-> v])

\* for _ in range(cnt): ih[a] = v; a += 1
IHFill(ih, a, cnt, v) ==
    IF cnt > 0 THEN Append(ih, [addr |-> a, n |-> cnt, b |-> v]) ELSE ih

Covers(w, a) == w.addr <= a /\ a < w.addr + w.n

\* a in ih._buf
IHHas(ih, a) == \E i \in DOMAIN ih : Covers(ih[i], a)

\* ih[a]: the byte last assigned, IntelHex's padding byte 0xFF when none was
IHGet(ih, a) ==
    IF IHHas(ih, a)
    THEN ih[SetMax({i \in DOMAIN ih : Covers(ih[i], a)})].b
    ELSE 255

\* ih.minaddr(), ih.maxaddr() of a non-empty object
IHMinAddr(ih) == SetMin({ih[i].addr : i \in DOMAIN ih})
IHMaxAddr(ih) == SetMax({ih[i].addr + ih[i].n - 1 : i \in DOMAIN ih})

\* The addresses at which the content of ih may change: between two
\* consecutive ones every address holds the same byte (or none is assigned).
IHBreaks(ih) ==
    {ih[i].addr : i \in DOMAIN ih} \cup {ih[i].addr + ih[i].n : i \in DOMAIN ih}

\* The first break after p, at most hi + 1.
NextBreak(ih, p, hi) == SetMin({x \in IHBreaks(ih) : x > p} \cup {hi + 1})

\* The breaks of ih in increasing order.
SortedBreaks(ih) == SortedSet(IHBreaks(ih))

\* The number of assigned addresses from brk[i] up to, not including, brk[j].
RECURSIVE CountAssigned(_, _, _, _)
CountAssigned(ih, brk, i, j) ==
    IF j = i + 1
    THEN (IF IHHas(ih, brk[i]) THEN brk[j] - brk[i] ELSE 0)
    ELSE LET m == (i + j) \div 2
         IN  CountAssigned(ih, brk, i, m) + CountAssigned(ih, brk, m, j)

\* len(ih): the number of addresses that were assigned
IHLen(ih) ==
    IF ih = << >> THEN 0
    ELSE LET brk == SortedBreaks(ih) IN CountAssigned(ih, brk, 1, Len(brk))

\* for address in range(src.minaddr(), src.maxaddr() + 1):
\*     ih[cur] = src[address]; cur += 1
\* written for the addresses p..hi of src, one run per constant stretch.
RECURSIVE CopyRange(_, _, _, _, _)
CopyRange(ih, cur, src, p, hi) ==
    IF p > hi THEN ih
    ELSE LET q == NextBreak(src, p, hi)
         IN  CopyRange(IHFill(ih, cur, q - p, IHGet(src, p)), cur + (q - p), src, q, hi)

\* len(data) of a byte string (runs [n, b]); the sum is split in halves
RECURSIVE BytesLen(_)
BytesLen(data) ==
    IF data = << >> THEN 0
    ELSE IF Len(data) = 1 THEN data[1].n
    ELSE LET m == Len(data) \div 2
         IN  BytesLen(SubSeq(data, 1, m)) + BytesLen(SubSeq(data, m + 1, Len(data)))

\* for i, byte in enumerate(data): ih[a + i] = byte      (data: runs [n, b])
\* one logged run per run of data, at the offset of the bytes before it
WriteBytes(ih, a, data) ==
    ih \o SelectSeq([k \in DOMAIN data |->
                        [addr |-> a + BytesLen(SubSeq(data, 1, k - 1)),
                         n |-> data[k].n, b |-> data[k].b]],
                    LAMBDA w : w.n > 0)

(***************************************************************************)
(* Text.  A hexadecimal text (an address field, a position field) is a     *)
(* sequence of one-character strings over the alphabet 0-9, A-F, a-f, G;   *)
(* a file name is a sequence of code points.                               *)
(***************************************************************************)
HexDigits == <<"0", "1", "2", "3", "4", "5", "6", "7", "8", "9",
               "A", "B", "C", "D", "E", "F">>
LowerDigits == <<"0", "1", "2", "3", "4", "5", "6", "7", "8", "9",
                 "a", "b", "c", "d", "e", "f">>

\* str.upper() of one character of the alphabet
UpperChar(c) ==
    IF \E i \in 1..16 : LowerDigits[i] = c
    THEN HexDigits[CHOOSE i \in 1..16 : LowerDigits[i] = c]
    ELSE c

\* text.upper()
Upper(text) == [i \in DOMAIN text |-> UpperChar(text[i])]

IsHexChar(c) == \E i \in 1..16 : HexDigits[i] = UpperChar(c)
DigitVal(c) == (CHOOSE i \in 1..16 : HexDigits[i] = UpperChar(c)) - 1

\* int(text, 16) raises ValueError
HexInvalid(text) == text = << >> \/ \E i \in DOMAIN text : ~IsHexChar(text[i])

\* int(text, 16) of a valid text whose value is below 2^31
RECURSIVE HexValue(_)
HexValue(text) ==
    IF text = << >> THEN 0
    ELSE 16 * HexValue(SubSeq(text, 1, Len(text) - 1)) + DigitVal(text[Len(text)])

\* int(text, 16) of a valid text of at most 8 digits, as the pair of its
\* 16-bit halves: the value may be 0xFFFFFFFF, beyond the checker's integers.
HexWord(text) ==
    LET n == Len(text)
        k == IF n > 4 THEN n - 4 ELSE 0
    IN  [hi |-> HexValue(SubSeq(text, 1, k)), lo |-> HexValue(SubSeq(text, k + 1, n))]

\* the same pair for an address held as an integer
WordOf(a) == [hi |-> a \div 65536, lo |-> a % 65536]

\* (w >> (8*k)) & 0xFF for k = 0..3
WordByte(w, k) ==
    IF k < 2 THEN ByteOf(w.lo, k) ELSE ByteOf(w.hi, k - 2)

\* hex(a)[2:].upper()
RECURSIVE HexText(_)
HexText(a) ==
    IF a < 16 THEN <<HexDigits[a + 1]>>
    ELSE Append(HexText(a \div 16), HexDigits[(a % 16) + 1])

\* text.zfill(8)
ZFill8(text) ==
    IF Len(text) >= 8 THEN text
    ELSE [i \in 1..(8 - Len(text)) |-> "0"] \o text

\* hex(addr)[2:].upper().zfill(8), f"{addr:08X}"
FormatAddress(a) == ZFill8(HexText(a))

\* c.encode('utf-8') of one code point below 0x10000
Utf8(cp) ==
    IF cp < 128 THEN <<cp>>
    ELSE IF cp < 2048 THEN <<192 + (cp \div 64), 128 + (cp % 64)>>
    ELSE <<224 + (cp \div 4096), 128 + ((cp \div 64) % 64), 128 + (cp % 64)>>

\* name.encode('utf-8') as a byte string
RECURSIVE EncodeUtf8(_)
EncodeUtf8(name) ==
    IF name = << >> THEN << >>
    ELSE IF Len(name) = 1
    THEN [i \in DOMAIN Utf8(name[1]) |-> [n |-> 1, b |-> Utf8(name[1])[i]]]
    ELSE LET m == Len(name) \div 2
         IN  EncodeUtf8(SubSeq(name, 1, m)) \o EncodeUtf8(SubSeq(name, m + 1, Len(name)))

\* f.endswith(".wav")
EndsWithWav(name) ==
    Len(name) >= 4 /\ SubSeq(name, Len(name) - 3, Len(name)) = <<46, 119, 97, 118>>

(***************************************************************************)
(* AudioProcessor.create_hex_data                                          *)
(***************************************************************************)
\* wav_filename.ljust(FILENAME_BUFFER_SIZE, '\x00').encode('utf-8')
FilenameBytes(wav_filename) ==
    EncodeUtf8(wav_filename)
    \o (IF Len(wav_filename) < FILENAME_BUFFER_SIZE
        THEN <<[n |-> FILENAME_BUFFER_SIZE - Len(wav_filename), b |-> 0]>>
        ELSE << >>)

\* variant: the size stored most significant byte first
StoreSize_BigEndian(ih, flac_size) ==
    IHSet(IHSet(IHSet(IHSet(ih,
        FLAC_SIZE_OFFSET, ByteOf(flac_size, 3)),
        FLAC_SIZE_OFFSET + 1, ByteOf(flac_size, 2)),
        FLAC_SIZE_OFFSET + 2, ByteOf(flac_size, 1)),
        FLAC_SIZE_OFFSET + 3, ByteOf(flac_size, 0))

\* the four assignments of flac_size to ih[FLAC_SIZE_OFFSET .. + 3]
StoreSize(ih, flac_size) ==
    IHSet(IHSet(IHSet(IHSet(ih,
        FLAC_SIZE_OFFSET, ByteOf(flac_size, 0)),
        FLAC_SIZE_OFFSET + 1, ByteOf(flac_size, 1)),
        FLAC_SIZE_OFFSET + 2, ByteOf(flac_size, 2)),
        FLAC_SIZE_OFFSET + 3, ByteOf(flac_size, 3))

_add_engine_data(ih, flac_data, wav_filename) ==
    WriteBytes(WriteBytes(ih, ENGINE_FILENAME_OFFSET, FilenameBytes(wav_filename)),
               ENGINE_FLAC_DATA_OFFSET, flac_data)

_add_event_data(ih, flac_data) == WriteBytes(ih, EVENT_FLAC_DATA_OFFSET, flac_data)

\* variant: create_hex_data takes an empty payload
EmptyFlacData_Never(flac_data) == FALSE

\* create_hex_data raises AudioFileError("Empty FLAC data provided")
EmptyFlacData(flac_data) == flac_data = << >>

\* the IntelHex object create_hex_data returns for a non-empty flac_data
create_hex_data(flac_data, sound_type, wav_filename) ==
    LET ih == StoreSize(<< >>, BytesLen(flac_data))
    IN  IF sound_type = "Engine Sound"
        THEN _add_engine_data(ih, flac_data, wav_filename)
        ELSE _add_event_data(ih, flac_data)

(***************************************************************************)
(* ProcessingThread: the address allocator of _convert_wav_files           *)
(***************************************************************************)
\* variant: the allocator assumes the 8-byte header for both sound types
_calculate_initial_address_Event(sound_type, base_address) ==
    base_address + EVENT_HEADER_SIZE

_calculate_initial_address(sound_type, base_address) ==
    IF sound_type = "Engine Sound"
    THEN base_address + ENGINE_HEADER_SIZE
    ELSE base_address + EVENT_HEADER_SIZE

_align_address(address) ==
    IF address % WORD_ALIGNMENT # 0
    THEN address + (WORD_ALIGNMENT - (address % WORD_ALIGNMENT))
    ELSE address

\* variant: the allocator forgets to align
NextFileAddress_Unaligned(current_address, hex_data) ==
    current_address + IHLen(hex_data)

\* variant: the allocator does not advance by the record
NextFileAddress_Stuck(current_address, hex_data) ==
    _align_address(current_address)

\* current_address += len(hex_data); current_address = _align_address(...)
NextFileAddress(current_address, hex_data) ==
    _align_address(current_address + IHLen(hex_data))

(***************************************************************************)
(* HexMerger                                                               *)
(***************************************************************************)
\* merge state: the image and the running write address
_add_event_header(ih, current_address) ==
    [ih |-> IHFill(ih, current_address, EVENT_HEADER_SIZE, 255),
     cur |-> current_address + EVENT_HEADER_SIZE]

\* variant: the word stored most significant byte first
PutWord_BigEndian(ih, a, w) ==
    IHSet(IHSet(IHSet(IHSet(ih,
        a, WordByte(w, 3)), a + 1, WordByte(w, 2)),
        a + 2, WordByte(w, 1)), a + 3, WordByte(w, 0))

\* the four assignments of a 32-bit word, least significant byte first
PutWord(ih, a, w) ==
    IHSet(IHSet(IHSet(IHSet(ih,
        a, WordByte(w, 0)), a + 1, WordByte(w, 1)),
        a + 2, WordByte(w, 2)), a + 3, WordByte(w, 3))

RECURSIVE PutPositions(_, _, _)
PutPositions(ih, current_address, sound_positions) ==
    IF sound_positions = << >> THEN [ih |-> ih, cur |-> current_address]
    ELSE PutPositions(PutWord(ih, current_address, HexWord(Head(sound_positions))),
                      current_address + 4, Tail(sound_positions))

\* variant: the positions are written last slot first
_add_engine_header_Reversed(ih, current_address, sound_positions) ==
    PutPositions(PutWord(ih, current_address, WordOf(MAGIC_KEY)), current_address + 4,
                 [i \in DOMAIN sound_positions |->
                     sound_positions[Len(sound_positions) + 1 - i]])

_add_engine_header(ih, current_address, sound_positions) ==
    PutPositions(PutWord(ih, current_address, WordOf(MAGIC_KEY)),
                 current_address + 4, sound_positions)

\* variant: the padding bytes are 0x00
\* variant: the alignment moves the write address on without writing
_add_padding_Skip(ih, current_address) ==
    [ih |-> ih, cur |-> _align_address(current_address)]

_add_padding_Zero(ih, current_address) ==
    LET padding == current_address % WORD_ALIGNMENT
    IN  IF padding # 0
        THEN [ih |-> IHFill(ih, current_address, WORD_ALIGNMENT - padding, 0),
              cur |-> current_address + (WORD_ALIGNMENT - padding)]
        ELSE [ih |-> ih, cur |-> current_address]

_add_padding(ih, current_address) ==
    LET padding == current_address % WORD_ALIGNMENT
    IN  IF padding # 0
        THEN [ih |-> IHFill(ih, current_address, WORD_ALIGNMENT - padding, 255),
              cur |-> current_address + (WORD_ALIGNMENT - padding)]
        ELSE [ih |-> ih, cur |-> current_address]

\* the loop over hex_data_list shared by _merge_event_data and
\* _merge_engine_data: copy minaddr()..maxaddr() of each record, then pad
RECURSIVE MergeRecords(_, _, _)
MergeRecords(ih, current_address, hex_data_list) ==
    IF hex_data_list = << >> THEN [ih |-> ih, cur |-> current_address]
    ELSE LET temp_ih == Head(hex_data_list)
             lo == IHMinAddr(temp_ih)
             hi == IHMaxAddr(temp_ih)
             copied == CopyRange(ih, current_address, temp_ih, lo, hi)
             padded == _add_padding(copied, current_address + (hi - lo + 1))
         IN  MergeRecords(padded.ih, padded.cur, Tail(hex_data_list))

\* variant: the Event image is filled up to the next multiple of 1024
_merge_event_data_Filled(ih, hex_data_list, current_address) ==
    LET m == MergeRecords(ih, current_address, hex_data_list)
        fill == (1024 - (m.cur % 1024)) % 1024
    IN  [ih |-> IHFill(m.ih, m.cur, fill, 255), cur |-> m.cur + fill]

_merge_event_data(ih, hex_data_list, current_address) ==
    MergeRecords(ih, current_address, hex_data_list)

\* while current_address < target_end_address: ih[current_address] = 0xFF
_merge_engine_data(ih, hex_data_list, current_address, start_address) ==
    LET m == MergeRecords(ih, current_address, hex_data_list)
        target_end_address == start_address + HEX_FILE_SIZE_BYTES
    IN  IF m.cur < target_end_address
        THEN [ih |-> IHFill(m.ih, m.cur, target_end_address - m.cur, 255),
              cur |-> target_end_address]
        ELSE m

\* merge_hex_data_list raises AudioFileError("No HEX data to merge")
NoHexData(hex_data_list) == hex_data_list = << >>

\* the image and final write address of merge_hex_data_list
merge_hex_data_list(sound_type, start_address, hex_data_list, sound_positions) ==
    IF sound_type = "Event Sound"
    THEN LET h == _add_event_header(<< >>, start_address)
         IN  _merge_event_data(h.ih, hex_data_list, h.cur)
    ELSE LET h == _add_engine_header(<< >>, start_address, sound_positions)
         IN  _merge_engine_data(h.ih, hex_data_list, h.cur, start_address)

(***************************************************************************)
(* ProcessingThread.merge_hex_data of AVAS40_WavConverter.py               *)
(***************************************************************************)
\* int(float(self.hex_file_size_kb) * 1024) for hex_file_size_kb = "864.00"
LegacySizeBytes == 864 * 1024

\* the loop "for position in sound_positions" of merge_hex_data
RECURSIVE LegacyPositions(_, _, _)
LegacyPositions(ih, current_address, sound_positions) ==
    IF sound_positions = << >> THEN [ih |-> ih, cur |-> current_address]
    ELSE LET pos_value == HexWord(Head(sound_positions))
             a == current_address
         IN  LegacyPositions(
                 IHSet(IHSet(IHSet(IHSet(ih, a, WordByte(pos_value, 0)),
                     a + 1, WordByte(pos_value, 1)),
                     a + 2, WordByte(pos_value, 2)),
                     a + 3, WordByte(pos_value, 3)),
                 current_address + 4, Tail(sound_positions))

\* the loop "for temp_ih in hex_data_list" of merge_hex_data: the copy of
\* minaddr()..maxaddr(), then the padding written in place
RECURSIVE LegacyRecords(_, _, _)
LegacyRecords(ih, current_address, hex_data_list) ==
    IF hex_data_list = << >> THEN [ih |-> ih, cur |-> current_address]
    ELSE LET temp_ih == Head(hex_data_list)
             n == IHMaxAddr(temp_ih) + 1 - IHMinAddr(temp_ih)
             copied == CopyRange(ih, current_address, temp_ih,
                                 IHMinAddr(temp_ih), IHMaxAddr(temp_ih))
             after == current_address + n
             padding == after % 4
             padding_to_add == IF padding # 0 THEN 4 - padding ELSE 0
         IN  LegacyRecords(IHFill(copied, after, padding_to_add, 255),
                           after + padding_to_add, Tail(hex_data_list))

\* variant: merge_hex_data without the fill up to the fixed size
merge_hex_data_NoFill(sound_type, start_address, hex_data_list, sound_positions) ==
    IF sound_type = "Event Sound"
    THEN LegacyRecords(IHFill(<< >>, start_address, 8, 255), start_address + 8,
                       hex_data_list)
    ELSE LET h == LegacyPositions(PutWord(<< >>, start_address, WordOf(MAGIC_KEY)),
                                  start_address + 4, sound_positions)
         IN  LegacyRecords(h.ih, h.cur, hex_data_list)

\* merge_hex_data of AVAS40_WavConverter.py: the image and the final write
\* address (sound_positions is a list whenever the sound type is Engine)
merge_hex_data(sound_type, start_address, hex_data_list, sound_positions) ==
    IF sound_type = "Event Sound"
    THEN LegacyRecords(IHFill(<< >>, start_address, 8, 255), start_address + 8,
                       hex_data_list)
    ELSE LET magic == IHSet(IHSet(IHSet(IHSet(<< >>,
                          start_address, 165), start_address + 1, 90),
                          start_address + 2, 165), start_address + 3, 90)
             h == LegacyPositions(magic, start_address + 4, sound_positions)
             m == LegacyRecords(h.ih, h.cur, hex_data_list)
             end == start_address + LegacySizeBytes
         IN  IF m.cur < end
             THEN [ih |-> IHFill(m.ih, m.cur, end - m.cur, 255), cur |-> end]
             ELSE m

(***************************************************************************)
(* The inputs: WAV files, input folders, the texts a user types.           *)
(* A file is its name, its sample rate (wave.getframerate; -1 when          *)
(* wave.open raises) and what flac.exe does with it: its return code and   *)
(* the bytes on its stdout.                                                *)
(***************************************************************************)
Txt1(c) == <<c>>
SENTINEL == <<"F", "F", "F", "F", "F", "F", "F", "F">>
LOWER_SENTINEL == <<"f", "f", "f", "f", "f", "f", "f", "f">>
DEADBEEF == <<"D", "E", "A", "D", "B", "E", "E", "F">>
ENGINE_ADDRESS == <<"1", "0", "1", "1", "8", "0", "0", "0">>   \* "10118000"
EVENT_ADDRESS == <<"0", "0", "0", "0", "1", "0", "0", "0">>    \* "00001000"

\* payloads: 3 bytes, 1 byte, the largest that fits one Engine record into
\* the fixed image, one byte more than that, and 0x01020304 bytes
Payload3 == <<[n |-> 1, b |-> 102], [n |-> 2, b |-> 76]>>
Payload1 == <<[n |-> 1, b |-> 67]>>
FitLen == HEX_FILE_SIZE_BYTES - ENGINE_HEADER_SIZE - ENGINE_FLAC_DATA_OFFSET
PayloadFit == <<[n |-> 1, b |-> 102], [n |-> FitLen - 1, b |-> 1]>>
PayloadOver == <<[n |-> 1, b |-> 102], [n |-> FitLen, b |-> 2]>>
PayloadHuge == <<[n |-> 1, b |-> 102], [n |-> 16909059, b |-> 3]>>

\* wav_file.readframes(n_frames): n_frames frames of frame_size bytes each, the
\* bytes numbered from seed on so that no two frames are alike
Frames(n_frames, frame_size, seed) ==
    [p \in 1..(n_frames * frame_size) |-> (seed + p - 1) % 256]

\* a file of the input folder: its name, what wave.open reads from it (rate < 0:
\* no RIFF/WAVE file), whether flac.exe stands in the application directory
\* when the file is converted, and the encoder's return code and output
WavA == [name |-> <<97, 46, 119, 97, 118>>, rate |-> 24000, rc |-> 0, out |-> Payload3,
    exe |-> TRUE, n_channels |-> 1, sample_width |-> 2, frames |-> Frames(2, 2, 0)]
WavB == [name |-> <<98, 46, 119, 97, 118>>, rate |-> 48000, rc |-> 0, out |-> Payload1,
    exe |-> TRUE, n_channels |-> 1, sample_width |-> 2, frames |-> Frames(2, 2, 0)]
WavRate == [name |-> <<114, 46, 119, 97, 118>>, rate |-> 44100, rc |-> 0, out |-> Payload1,
    exe |-> TRUE, n_channels |-> 1, sample_width |-> 2, frames |-> Frames(2, 2, 0)]
WavEnc == [name |-> <<101, 46, 119, 97, 118>>, rate |-> 24000, rc |-> 1, out |-> << >>,
    exe |-> TRUE, n_channels |-> 1, sample_width |-> 2, frames |-> Frames(2, 2, 0)]
WavZero == [name |-> <<122, 46, 119, 97, 118>>, rate |-> 48000, rc |-> 0, out |-> << >>,
    exe |-> TRUE, n_channels |-> 1, sample_width |-> 2, frames |-> Frames(2, 2, 0)]
WavZero24 == [name |-> <<121, 46, 119, 97, 118>>, rate |-> 24000, rc |-> 0, out |-> << >>,
    exe |-> TRUE, n_channels |-> 1, sample_width |-> 2, frames |-> Frames(2, 2, 0)]
WavFit == [name |-> <<102, 46, 119, 97, 118>>, rate |-> 24000, rc |-> 0, out |-> PayloadFit,
    exe |-> TRUE, n_channels |-> 1, sample_width |-> 2, frames |-> Frames(2, 2, 0)]
WavOver == [name |-> <<111, 46, 119, 97, 118>>, rate |-> 48000, rc |-> 0, out |-> PayloadOver,
    exe |-> TRUE, n_channels |-> 1, sample_width |-> 2, frames |-> Frames(2, 2, 0)]
WavHuge == [name |-> <<104, 46, 119, 97, 118>>, rate |-> 24000, rc |-> 0, out |-> PayloadHuge,
    exe |-> TRUE, n_channels |-> 1, sample_width |-> 2, frames |-> Frames(2, 2, 0)]
WavBad == [name |-> <<120, 46, 119, 97, 118>>, rate |-> -1, rc |-> 0, out |-> << >>,
    exe |-> TRUE, n_channels |-> 1, sample_width |-> 2, frames |-> Frames(2, 2, 0)]
NotWav == [name |-> <<110, 46, 116, 120, 116>>, rate |-> 0, rc |-> 0, out |-> << >>,
    exe |-> TRUE, n_channels |-> 1, sample_width |-> 2, frames |-> Frames(2, 2, 0)]

\* os.listdir of the folders that exist, by the text of the folder field
Folders ==
    [notes |-> <<NotWav>>,
     one   |-> <<WavA>>,
     two   |-> <<WavA, NotWav, WavB>>,
     rate  |-> <<WavA, WavRate, WavB>>,
     enc   |-> <<WavEnc, WavA>>,
     zero  |-> <<WavB, WavZero, WavA>>,
     zero24 |-> <<WavA, WavZero24>>,
     fit   |-> <<WavFit>>,
     over  |-> <<WavA, WavOver>>,
     empty |-> << >>,
     bad   |-> <<WavB, WavBad>>,
     huge  |-> <<WavHuge>>]

\* the texts of the folder field: none, a folder that does not exist, the others
FolderTexts == {"", "gone"} \cup DOMAIN Folders

\* os.path.exists(input_folder)
FolderExists(folder) == folder \in DOMAIN Folders

\* the texts typed into the start address field (Event Sound)
AddressTexts == {<<"0", "0", "0", "0", "1", "0", "0", "1">>, <<"2", "f", "0">>, <<"G">>}

\* the texts typed into a position field: the field's validator admits
\* hexadecimal digits only, at most 8 of them
PositionTexts(start_addresses) ==
    {SENTINEL, LOWER_SENTINEL, DEADBEEF, << >>}
    \cup {FormatAddress(start_addresses[j]) : j \in DOMAIN start_addresses}

(***************************************************************************)
(* AudioProcessor.wav_to_flac and ProcessingThread._process_single_wav_file *)
(***************************************************************************)
\* what the encoder is given on stdin: the WAV written by wave.open(.., 'wb')
NoWavData == [n_channels |-> 0, sample_width |-> 0, framerate |-> 0, frames |-> << >>]

\* variant: the resampler keeps every frame
Downsample_KeepAll(frames, sample_width, n_channels) == frames

\* the loop of _downsample_and_convert_to_flac:
\*   for i in range(0, num_frames, 2): extend(frames[i*frame_size : i*frame_size + frame_size])
Downsample(frames, sample_width, n_channels) ==
    LET frame_size == sample_width * n_channels
        num_frames == Len(frames) \div frame_size
        picked == {i \in 0..(num_frames - 1) : i % 2 = 0}
    IN  [p \in 1..(Cardinality(picked) * frame_size) |->
            frames[(2 * ((p - 1) \div frame_size)) * frame_size + ((p - 1) % frame_size) + 1]]

\* the loop of process_wav_to_hex_data (AVAS40_WavConverter.py):
\*   for i in range(0, len(frames), step): extend(frames[i : i + frame_size])
RECURSIVE LegacyLoop(_, _, _)
LegacyLoop(frames, i, frame_size) ==
    IF i >= Len(frames) THEN << >>
    ELSE SubSeq(frames, i + 1, SetMin({i + frame_size, Len(frames)}))
         \o LegacyLoop(frames, i + 2 * frame_size, frame_size)

LegacyDownsample(frames, sample_width, n_channels) ==
    LegacyLoop(frames, 0, sample_width * n_channels)

\* a failed conversion: the exception, the rate its message names (0: none),
\* and how the encoder had been invoked before
Raised(error, named, encoder, stdin) ==
    [ok |-> FALSE, error |-> error, named |-> named, data |-> << >>,
     encoder |-> encoder, stdin |-> stdin]

\* wav_to_flac: the FLAC bytes, or the exception raised.  (The path comes from
\* os.listdir, so the file exists.)
wav_to_flac(wav) ==
    IF wav.rate < 0
    THEN \* wave.open raises wave.Error: the file is no RIFF/WAVE file
         Raised("wave.Error", 0, "none", NoWavData)
    ELSE IF ~wav.exe
    THEN Raised("flac.exe not found in application directory", 0, "none", NoWavData)
    ELSE IF wav.rate = 48000
    THEN \* _downsample_and_convert_to_flac: process.returncode != 0 raises
         LET stdin == [n_channels |-> wav.n_channels, sample_width |-> wav.sample_width,
                       framerate |-> 24000,
                       frames |-> Downsample(wav.frames, wav.sample_width, wav.n_channels)]
         IN  IF wav.rc # 0 THEN Raised("FlacConversionError", 0, "stdin", stdin)
             ELSE [ok |-> TRUE, error |-> "", named |-> 0, data |-> wav.out,
                   encoder |-> "stdin", stdin |-> stdin]
    ELSE IF wav.rate = 24000
    THEN \* _convert_file_to_flac: subprocess.run(check=True)
         IF wav.rc # 0 THEN Raised("FlacConversionError", 0, "file", NoWavData)
         ELSE [ok |-> TRUE, error |-> "", named |-> 0, data |-> wav.out,
               encoder |-> "file", stdin |-> NoWavData]
    ELSE Raised("Unsupported sample rate", wav.rate, "none", NoWavData)

\* ProcessingThread.process_wav_to_hex_data of AVAS40_WavConverter.py, up to
\* the read of the temporary .flac file: no test of the rate, of flac.exe or
\* of the return code; a missing output file makes os.path.getsize raise
process_wav_to_hex_data(wav) ==
    IF wav.rate < 0
    THEN Raised("wave.Error", 0, "none", NoWavData)
    ELSE LET stdin == IF wav.rate = 48000
                      THEN [n_channels |-> wav.n_channels,
                            sample_width |-> wav.sample_width, framerate |-> 24000,
                            frames |-> LegacyDownsample(wav.frames, wav.sample_width,
                                                        wav.n_channels)]
                      ELSE NoWavData
             encoder == IF wav.rate = 48000 THEN "stdin" ELSE "file"
         IN  IF ~wav.exe THEN Raised("FileNotFoundError", 0, "none", stdin)
             ELSE IF wav.rc # 0 THEN Raised("FileNotFoundError", 0, encoder, stdin)
             ELSE [ok |-> TRUE, error |-> "", named |-> 0, data |-> wav.out,
                   encoder |-> encoder, stdin |-> stdin]

\* the try block of _process_single_wav_file: the record, or the failure
ProcessSingle(wav, sound_type) ==
    LET flac == wav_to_flac(wav)
    IN  IF ~flac.ok THEN [ok |-> FALSE, error |-> flac.error, hex_data |-> << >>]
        ELSE IF EmptyFlacData(flac.data)
        THEN [ok |-> FALSE, error |-> "Empty FLAC data provided", hex_data |-> << >>]
        ELSE [ok |-> TRUE, error |-> "",
              hex_data |-> create_hex_data(flac.data, sound_type, wav.name)]

\* variant: every listed file is taken for a WAV file
WavFilter_All(listing) == listing

\* [f for f in os.listdir(folder) if f.endswith(".wav")]
RECURSIVE WavFilter(_)
WavFilter(listing) ==
    IF listing = << >> THEN << >>
    ELSE (IF EndsWithWav(Head(listing).name) THEN <<Head(listing)>> ELSE << >>)
         \o WavFilter(Tail(listing))

(***************************************************************************)
(* AddressSettingDialog.accept                                             *)
(***************************************************************************)
position_labels ==
    <<"Sound F1", "Sound F2", "Sound F3", "Sound S1", "Sound S2", "Sound S3",
      "Sound C1", "Sound C2", "Sound R1", "Sound R2">>

\* variant: accept checks that a field is hexadecimal, not that it names a file
Unmatched_InvalidOnly(text, start_addresses) ==
    Upper(text) # SENTINEL /\ HexInvalid(Upper(text))

\* the loop body of accept for one field: the field is appended to
\* unmatched_positions
Unmatched(text, start_addresses) ==
    LET position_value == Upper(text)
    IN  /\ position_value # SENTINEL
        /\ \/ HexInvalid(position_value)
           \/ ~\E j \in DOMAIN start_addresses :
                 WordOf(start_addresses[j]) = HexWord(position_value)

RECURSIVE UnmatchedFrom(_, _, _)
UnmatchedFrom(i, position_edits, start_addresses) ==
    IF i > Len(position_edits) THEN << >>
    ELSE (IF Unmatched(position_edits[i], start_addresses)
          THEN <<position_labels[i]>> ELSE << >>)
         \o UnmatchedFrom(i + 1, position_edits, start_addresses)

unmatched_positions(position_edits, start_addresses) ==
    UnmatchedFrom(1, position_edits, start_addresses)

\* get_sound_positions: [edit.text().upper() for edit in self.position_edits]
get_sound_positions(position_edits) ==
    [i \in DOMAIN position_edits |-> Upper(position_edits[i])]

(***************************************************************************)
(* State.                                                                  *)
(***************************************************************************)
VARIABLES
    \* MainWindow
    engine_radio,         \* engine_radio.isChecked()
    start_address_edit,   \* [text, enabled] of the start address field
    input_folder_edit,    \* text of the input folder field
    buttons_enabled,      \* start_button / save_button isEnabled()
    dialog,               \* the AddressSettingDialog being executed, if any
    runs,                 \* number of runs started
    \* ProcessingThread
    params,               \* input_folder, sound_type, hex_start_address
    wav_files,            \* self.wav_files
    hex_data_list,        \* self.hex_data_list
    start_addresses,      \* self.start_addresses
    pc,                   \* where run() stands: idle, find, prepare, convert_start, convert, branch
    file_index,           \* position of the loop of _convert_wav_files in wav_files
    current_address,      \* local of _convert_wav_files
    \* what the run did (reset by start_processing)
    sigq,                 \* signals emitted by the worker, not yet handled by the GUI thread
    log,                  \* log_message emissions
    attempts,             \* the calls of _process_single_wav_file: file name and outcome
    applied,              \* the positions handed to complete_engine_processing
    merged,               \* the calls of merge_hex_data_list: image, final address, positions
    emitted,              \* the artifacts written
    \* AudioProcessor on its own
    built                 \* a call of create_hex_data: its arguments and its outcome

uiVars == <<engine_radio, start_address_edit, input_folder_edit>>
threadVars == <<params, wav_files, hex_data_list, start_addresses, pc, file_index,
                current_address>>
runVars == <<sigq, log, attempts, applied, merged, emitted>>
vars == <<engine_radio, start_address_edit, input_folder_edit, buttons_enabled, dialog,
          runs, params, wav_files, hex_data_list, start_addresses, pc, file_index,
          current_address, sigq, log, attempts, applied, merged, emitted, built>>

NoDialog ==
    [open |-> FALSE, wav_files |-> << >>, start_addresses |-> << >>,
     position_edits |-> << >>, sound_positions |-> << >>, error |-> << >>]

Msg(text, file) == [msg |-> text, file |-> file]

\* MainWindow.__init__ (update_fields with Engine checked) and
\* ProcessingThread._init_parameters
InitWindow ==
    /\ engine_radio = TRUE
    /\ start_address_edit = [text |-> ENGINE_ADDRESS, enabled |-> FALSE]
    /\ input_folder_edit = ""
    /\ buttons_enabled = TRUE
    /\ dialog = NoDialog
    /\ runs = 0
    /\ params = [input_folder |-> "", sound_type |-> "Engine Sound",
                 hex_start_address |-> ENGINE_ADDRESS]
    /\ wav_files = << >>
    /\ hex_data_list = << >>
    /\ start_addresses = << >>
    /\ pc = "idle"
    /\ file_index = 0
    /\ current_address = 0
    /\ sigq = << >>
    /\ log = << >>
    /\ attempts = << >>
    /\ applied = << >>
    /\ merged = << >>
    /\ emitted = {}

\* no call of create_hex_data outside a run
NoCall ==
    [phase |-> "none", flac_data |-> << >>, sound_type |-> "", wav_filename |-> << >>,
     hex_data |-> << >>, error |-> ""]

Init == InitWindow /\ built = NoCall

(***************************************************************************)
(* MainWindow: the fields.  Only start_processing reads them, and it runs  *)
(* only while the start button is enabled; an edit made during a run       *)
(* commutes with every step of the run, so the edits are taken while the   *)
(* button is enabled (FieldsFree), which loses no value a run can start    *)
(* with.  A modal dialog blocks the main window.                           *)
(***************************************************************************)
FieldsFree == buttons_enabled /\ ~dialog.open

\* update_fields, the slot of engine_radio.toggled
\* variant: the toggle changes the editability only and keeps the text
update_fields_KeepText ==
    /\ FieldsFree
    /\ engine_radio' = ~engine_radio
    /\ start_address_edit' = [start_address_edit EXCEPT !.enabled = ~engine_radio']
    /\ UNCHANGED <<built, input_folder_edit, buttons_enabled, dialog, runs, threadVars, runVars>>

update_fields ==
    /\ FieldsFree
    /\ engine_radio' = ~engine_radio
    /\ start_address_edit' =
          IF engine_radio'
          THEN [text |-> ENGINE_ADDRESS, enabled |-> FALSE]
          ELSE [text |-> EVENT_ADDRESS, enabled |-> TRUE]
    /\ UNCHANGED <<built, input_folder_edit, buttons_enabled, dialog, runs, threadVars, runVars>>

\* the user types into the start address field (possible when it is enabled)
edit_start_address ==
    /\ FieldsFree
    /\ start_address_edit.enabled
    /\ \E text \in AddressTexts :
          /\ text # start_address_edit.text
          /\ start_address_edit' = [start_address_edit EXCEPT !.text = text]
    /\ UNCHANGED <<built, engine_radio, input_folder_edit, buttons_enabled, dialog, runs,
                   threadVars, runVars>>

\* browse_folder / dropEvent / typing: the folder field gets a text
browse_folder ==
    /\ FieldsFree
    /\ \E folder \in FolderTexts :
          /\ folder # input_folder_edit
          /\ input_folder_edit' = folder
    /\ UNCHANGED <<built, engine_radio, start_address_edit, buttons_enabled, dialog, runs,
                   threadVars, runVars>>

\* _validate_input
_validate_input ==
    /\ input_folder_edit # ""
    /\ FolderExists(input_folder_edit)
    /\ engine_radio \/ ~HexInvalid(start_address_edit.text)

\* start_processing with _validate_input False: a warning, nothing else
start_rejected ==
    /\ buttons_enabled /\ ~dialog.open
    /\ ~_validate_input
    /\ UNCHANGED vars

\* start_processing: disable_buttons, log_text.clear, set_parameters, start
start_processing ==
    /\ buttons_enabled /\ ~dialog.open
    /\ runs < MaxRuns
    /\ _validate_input
    /\ runs' = runs + 1
    /\ buttons_enabled' = FALSE
    /\ params' = [input_folder |-> input_folder_edit,
                  sound_type |-> IF engine_radio THEN "Engine Sound" ELSE "Event Sound",
                  hex_start_address |-> start_address_edit.text]
    /\ pc' = "find"
    /\ log' = << >> /\ attempts' = << >>
    /\ applied' = << >> /\ merged' = << >> /\ emitted' = {}
    /\ UNCHANGED <<built, uiVars, dialog, wav_files, hex_data_list, start_addresses,
                   file_index, current_address, sigq>>

(***************************************************************************)
(* ProcessingThread.run, step by step                                      *)
(***************************************************************************)
guiVars == <<engine_radio, start_address_edit, input_folder_edit, buttons_enabled,
             dialog, runs>>

\* run: "Starting processing", then _find_and_validate_wav_files
_find_and_validate_wav_files ==
    /\ pc = "find"
    /\ IF ~FolderExists(params.input_folder)
       THEN /\ log' = log \o <<Msg("Starting processing", << >>),
                               Msg("Error finding WAV files", << >>)>>
            /\ pc' = "idle"
            /\ UNCHANGED <<wav_files, sigq>>
       ELSE /\ wav_files' = WavFilter(Folders[params.input_folder])
            /\ IF wav_files' = << >>
               THEN /\ sigq' = Append(sigq, [sig |-> "no_wav_files"])
                    /\ log' = Append(log, Msg("Starting processing", << >>))
                    /\ pc' = "idle"
               ELSE /\ log' = log \o <<Msg("Starting processing", << >>),
                                       Msg("Found WAV files", << >>)>>
                    /\ pc' = "prepare"
                    /\ UNCHANGED sigq
    /\ UNCHANGED <<built, guiVars, params, hex_data_list, start_addresses, file_index,
                   current_address, attempts, applied, merged, emitted>>

\* _prepare_output_folder: FileManager.ensure_output_folder_exists may raise
_prepare_output_folder ==
    /\ pc = "prepare"
    /\ \E ok \in BOOLEAN :
          IF ok
          THEN /\ log' = Append(log, Msg("Output folder ready", << >>))
               /\ pc' = "convert_start"
          ELSE /\ log' = Append(log, Msg("Error preparing output folder", << >>))
               /\ pc' = "idle"
    /\ UNCHANGED <<built, guiVars, params, wav_files, hex_data_list, start_addresses,
                   file_index, current_address, sigq, attempts, applied, merged, emitted>>

\* _convert_wav_files up to its loop: the lists are emptied, the first
\* address is computed
\* variant: the conversion does not empty the lists of the run before
_convert_wav_files_start_KeepLists ==
    /\ pc = "convert_start"
    /\ current_address' =
          _calculate_initial_address(params.sound_type, HexValue(params.hex_start_address))
    /\ file_index' = 1
    /\ log' = Append(log, Msg("[ File Conversion ]", << >>))
    /\ pc' = "convert"
    /\ UNCHANGED <<built, guiVars, params, wav_files, hex_data_list, start_addresses, sigq,
                   attempts, applied, merged, emitted>>

_convert_wav_files_start ==
    /\ pc = "convert_start"
    /\ hex_data_list' = << >>
    /\ start_addresses' = << >>
    /\ current_address' =
          _calculate_initial_address(params.sound_type, HexValue(params.hex_start_address))
    /\ file_index' = 1
    /\ log' = Append(log, Msg("[ File Conversion ]", << >>))
    /\ pc' = "convert"
    /\ UNCHANGED <<built, guiVars, params, wav_files, sigq, attempts, applied, merged, emitted>>

\* the two except clauses of _process_single_wav_file: AudioFileError and
\* FlacConversionError, and every other exception
FailureText(error) ==
    IF error = "wave.Error" THEN "Unexpected error processing" ELSE "Conversion Failed"

\* variant: the loop logs a failed file and goes on with the next one
ContinueAfterFailure ==
    /\ pc = "convert"
    /\ LET i == file_index
           wav == wav_files[i]
           r == ProcessSingle(wav, params.sound_type)
       IN  /\ i <= Len(wav_files)
           /\ attempts' = Append(attempts, [file |-> wav.name, ok |-> r.ok])
           /\ file_index' = i + 1
           /\ pc' = IF i = Len(wav_files) THEN "branch" ELSE "convert"
           /\ IF r.ok
              THEN /\ hex_data_list' = Append(hex_data_list, r.hex_data)
                   /\ start_addresses' = Append(start_addresses, current_address)
                   /\ log' = Append(log, Msg("Converted successfully", wav.name))
                   /\ current_address' = NextFileAddress(current_address, r.hex_data)
              ELSE /\ log' = Append(log, Msg(FailureText(r.error), wav.name))
                   /\ UNCHANGED <<hex_data_list, start_addresses, current_address>>
    /\ UNCHANGED <<built, guiVars, params, wav_files, sigq, applied, merged, emitted>>

\* one iteration of the loop of _convert_wav_files: _process_single_wav_file
\* on the next file, then the address of the file after it
_process_single_wav_file ==
    /\ pc = "convert"
    /\ LET i == file_index
           wav == wav_files[i]
           r == ProcessSingle(wav, params.sound_type)
       IN  /\ i <= Len(wav_files)
           /\ attempts' = Append(attempts, [file |-> wav.name, ok |-> r.ok])
           /\ IF r.ok
              THEN /\ hex_data_list' = Append(hex_data_list, r.hex_data)
                   /\ start_addresses' = Append(start_addresses, current_address)
                   /\ log' = Append(log, Msg("Converted successfully", wav.name))
                   /\ current_address' = NextFileAddress(current_address, r.hex_data)
                   /\ file_index' = i + 1
                   /\ pc' = IF i = Len(wav_files) THEN "branch" ELSE "convert"
              ELSE /\ log' = Append(log, Msg(FailureText(r.error), wav.name))
                   /\ pc' = "idle"
                   /\ UNCHANGED <<hex_data_list, start_addresses, file_index,
                                  current_address>>
    /\ UNCHANGED <<built, guiVars, params, wav_files, sigq, applied, merged, emitted>>

\* variant: the Engine run merges and saves at once, with the default positions
MergeWithoutDialog ==
    /\ pc = "branch"
    /\ params.sound_type = "Engine Sound"
    /\ LET positions == [i \in 1..NUM_POSITIONS |-> SENTINEL]
           image == merge_hex_data_list(params.sound_type,
                                        HexValue(params.hex_start_address),
                                        hex_data_list, positions)
       IN  merged' = Append(merged, [ih |-> image.ih, cur |-> image.cur,
                                     sound_positions |-> positions])
    /\ emitted' = emitted \cup {"bin", "header"}
    /\ sigq' = sigq \o <<[sig |-> "save_log"], [sig |-> "finished"]>>
    /\ pc' = "idle"
    /\ UNCHANGED <<built, guiVars, params, wav_files, hex_data_list, start_addresses,
                   file_index, current_address, log, attempts, applied>>

\* run, Engine Sound: _show_engine_address_dialog emits show_info_dialog
_show_engine_address_dialog ==
    /\ pc = "branch"
    /\ params.sound_type = "Engine Sound"
    /\ sigq' = Append(sigq, [sig |-> "show_info_dialog",
                             wav_files |-> [i \in DOMAIN wav_files |-> wav_files[i].name],
                             start_addresses |-> start_addresses,
                             sound_positions |-> [i \in 1..NUM_POSITIONS |-> SENTINEL]])
    /\ pc' = "idle"
    /\ UNCHANGED <<built, guiVars, params, wav_files, hex_data_list, start_addresses,
                   file_index, current_address, log, attempts, applied, merged, emitted>>

\* run, Event Sound: _log_file_info, _merge_and_save_files (_get_sound_positions
\* is None), _save_event_files, _finalize_processing
_merge_and_save_files ==
    /\ pc = "branch"
    /\ params.sound_type = "Event Sound"
    /\ LET image == merge_hex_data_list(params.sound_type,
                                        HexValue(params.hex_start_address),
                                        hex_data_list, << >>)
           logged == log \o <<Msg("File info", << >>), Msg("[ File Generation ]", << >>)>>
       IN  /\ merged' = Append(merged, [ih |-> image.ih, cur |-> image.cur,
                                        sound_positions |-> << >>])
           /\ \E saved \in BOOLEAN :
                 IF saved
                 THEN /\ emitted' = emitted \cup {"hex"}
                      /\ log' = logged \o <<Msg("Created HEX file", << >>),
                                            Msg("Processing completed successfully", << >>)>>
                      /\ sigq' = sigq \o <<[sig |-> "save_log"], [sig |-> "finished"]>>
                 ELSE /\ log' = Append(logged, Msg("Error saving event files", << >>))
                      /\ UNCHANGED <<emitted, sigq>>
    /\ pc' = "idle"
    /\ UNCHANGED <<built, guiVars, params, wav_files, hex_data_list, start_addresses,
                   file_index, current_address, attempts, applied>>

(***************************************************************************)
(* MainWindow: the slots of the worker's signals                           *)
(***************************************************************************)
\* enable_buttons, the slot of finished
enable_buttons ==
    /\ sigq # << >> /\ Head(sigq).sig = "finished"
    /\ sigq' = Tail(sigq)
    /\ buttons_enabled' = TRUE
    /\ UNCHANGED <<built, uiVars, dialog, runs, threadVars, log, attempts, applied, merged, emitted>>

\* save_log(auto_save=True), the slot of save_log: the CSV log is written
save_log ==
    /\ sigq # << >> /\ Head(sigq).sig = "save_log"
    /\ sigq' = Tail(sigq)
    /\ UNCHANGED <<built, uiVars, buttons_enabled, dialog, runs, threadVars, log, attempts,
                   applied, merged, emitted>>

\* handle_no_wav_files: a warning, then enable_buttons
handle_no_wav_files ==
    /\ sigq # << >> /\ Head(sigq).sig = "no_wav_files"
    /\ sigq' = Tail(sigq)
    /\ buttons_enabled' = TRUE
    /\ UNCHANGED <<built, uiVars, dialog, runs, threadVars, log, attempts, applied, merged, emitted>>

\* show_sound_info_dialog up to dialog.exec_(): AddressSettingDialog.__init__
show_sound_info_dialog ==
    /\ sigq # << >> /\ Head(sigq).sig = "show_info_dialog"
    /\ sigq' = Tail(sigq)
    /\ dialog' = [open |-> TRUE,
                  wav_files |-> Head(sigq).wav_files,
                  start_addresses |-> Head(sigq).start_addresses,
                  position_edits |-> Head(sigq).sound_positions,
                  sound_positions |-> Head(sigq).sound_positions,
                  error |-> << >>]
    /\ UNCHANGED <<built, uiVars, buttons_enabled, runs, threadVars, log, attempts, applied,
                   merged, emitted>>

(***************************************************************************)
(* AddressSettingDialog, and what show_sound_info_dialog does when         *)
(* dialog.exec_() returns                                                  *)
(***************************************************************************)
\* the user types into one of the position fields
edit_position ==
    /\ dialog.open
    /\ \E i \in 1..MaxEditedSlot, text \in PositionTexts(dialog.start_addresses) :
          /\ i <= Len(dialog.position_edits)
          /\ text # dialog.position_edits[i]
          /\ dialog' = [dialog EXCEPT !.position_edits[i] = text, !.error = << >>]
    /\ UNCHANGED <<built, uiVars, buttons_enabled, runs, threadVars, runVars>>

\* accept with unmatched positions: QMessageBox.critical, the dialog stays
accept_rejected ==
    /\ dialog.open
    /\ unmatched_positions(dialog.position_edits, dialog.start_addresses) # << >>
    /\ dialog' = [dialog EXCEPT
                    !.error = unmatched_positions(dialog.position_edits,
                                                  dialog.start_addresses)]
    /\ UNCHANGED <<built, uiVars, buttons_enabled, runs, threadVars, runVars>>

\* _save_engine_files after a merge: save_bin_file, then save_header_file,
\* either of which may raise
SaveEngineFiles(binSaved, headerSaved, logged) ==
    IF ~binSaved
    THEN /\ log' = Append(logged, Msg("Error saving engine files", << >>))
         /\ UNCHANGED emitted
    ELSE IF ~headerSaved
    THEN /\ log' = logged \o <<Msg("Created BIN file", << >>),
                               Msg("Error saving engine files", << >>)>>
         /\ emitted' = emitted \cup {"bin"}
    ELSE /\ log' = logged \o <<Msg("Created BIN file", << >>),
                               Msg("Created header file", << >>),
                               Msg("Processing completed successfully", << >>)>>
         /\ emitted' = emitted \cup {"bin", "header"}

\* accept with every position matched, QDialog.Accepted: _log_engine_sound_positions
\* and complete_engine_processing(updated_positions) in the GUI thread; every
\* path of it ends in finished.emit(), whose slot runs at once
accept ==
    /\ dialog.open
    /\ unmatched_positions(dialog.position_edits, dialog.start_addresses) = << >>
    /\ LET updated_positions == get_sound_positions(dialog.position_edits)
           logged == log \o <<Msg("< Engine Sound Position Information >", << >>),
                              Msg("[ File Generation ]", << >>)>>
       IN  /\ applied' = updated_positions
           /\ IF NoHexData(hex_data_list)
              THEN /\ log' = Append(logged, Msg("Error completing engine processing", << >>))
                   /\ UNCHANGED <<merged, emitted>>
              ELSE LET image == merge_hex_data_list(params.sound_type,
                                    HexValue(params.hex_start_address),
                                    hex_data_list, updated_positions)
                   IN  /\ merged' = Append(merged, [ih |-> image.ih, cur |-> image.cur,
                                                    sound_positions |-> updated_positions])
                       /\ \E binSaved, headerSaved \in BOOLEAN :
                             SaveEngineFiles(binSaved, headerSaved, logged)
    /\ dialog' = NoDialog
    /\ buttons_enabled' = TRUE
    /\ UNCHANGED <<built, uiVars, runs, threadVars, sigq, attempts>>

\* the dialog is closed without Apply: exec_() returns Rejected and
\* show_sound_info_dialog emits finished
reject ==
    /\ dialog.open
    /\ dialog' = NoDialog
    /\ buttons_enabled' = TRUE
    /\ UNCHANGED <<built, uiVars, runs, threadVars, runVars>>

Next ==
    \/ update_fields
    \/ edit_start_address
    \/ browse_folder
    \/ start_rejected
    \/ start_processing
    \/ _find_and_validate_wav_files
    \/ _prepare_output_folder
    \/ _convert_wav_files_start
    \/ _process_single_wav_file
    \/ _show_engine_address_dialog
    \/ _merge_and_save_files
    \/ enable_buttons
    \/ save_log
    \/ handle_no_wav_files
    \/ show_sound_info_dialog
    \/ edit_position
    \/ accept_rejected
    \/ accept
    \/ reject

Spec == Init /\ [][Next]_vars

(***************************************************************************)
(* AudioProcessor.create_hex_data called on its own: the arguments are     *)
(* drawn from payloads of up to MaxPayloadRuns runs of equal bytes.        *)
(***************************************************************************)
BuildRuns == [n : {1, 2, 256, 65536, 16777216}, b : {0, 102, 255}]
BuildPayloads == UNION {[1..k -> BuildRuns] : k \in 0..MaxPayloadRuns}
\* "a.wav", "\u00e9.wav" and a name of 85 characters, "xxx...x.wav"
LongName == [i \in 1..81 |-> 120] \o <<46, 119, 97, 118>>
BuildNames == {<<97, 46, 119, 97, 118>>, <<233, 46, 119, 97, 118>>, LongName}

InitBuild ==
    /\ InitWindow
    /\ \E flac_data \in BuildPayloads, wav_filename \in BuildNames,
          sound_type \in {"Engine Sound", "Event Sound"} :
          built = [phase |-> "call", flac_data |-> flac_data, sound_type |-> sound_type,
                   wav_filename |-> wav_filename, hex_data |-> << >>, error |-> ""]

windowVars == <<engine_radio, start_address_edit, input_folder_edit, buttons_enabled,
                dialog, runs, threadVars, runVars>>

\* create_hex_data returns the record
create_hex_data_returns ==
    /\ built.phase = "call"
    /\ ~EmptyFlacData(built.flac_data)
    /\ built' = [built EXCEPT
                   !.phase = "returned",
                   !.hex_data = create_hex_data(built.flac_data, built.sound_type,
                                                built.wav_filename)]
    /\ UNCHANGED windowVars

\* create_hex_data raises
create_hex_data_raises ==
    /\ built.phase = "call"
    /\ EmptyFlacData(built.flac_data)
    /\ built' = [built EXCEPT !.phase = "raised", !.error = "Empty FLAC data provided"]
    /\ UNCHANGED windowVars

NextBuild ==
    \/ create_hex_data_returns
    \/ create_hex_data_raises

SpecBuild == InitBuild /\ [][NextBuild]_vars

(***************************************************************************)
(* The conversion of one file on its own: wav_to_flac, and the routine of   *)
(* AVAS40_WavConverter.py that does the same work.                          *)
(***************************************************************************)
FlacRates == {-1, 22050, 24000, 44100, 48000, 96000}

FlacInputs ==
    {[name |-> <<97, 46, 119, 97, 118>>, rate |-> rate, rc |-> rc, out |-> out,
      exe |-> exe, n_channels |-> n_channels, sample_width |-> sample_width,
      frames |-> Frames(n_frames, sample_width * n_channels, 250)] :
        rate \in FlacRates, rc \in {0, 1}, out \in {<< >>, Payload1},
        exe \in BOOLEAN, n_channels \in {1, 2}, sample_width \in {2, 3},
        n_frames \in 0..MaxFrames}

InitFlac ==
    /\ InitWindow
    /\ \E wav \in FlacInputs :
          built = [phase |-> "wav", by |-> "", wav |-> wav,
                   result |-> Raised("", 0, "none", NoWavData)]

\* AudioProcessor.wav_to_flac on the file
call_wav_to_flac ==
    /\ built.phase = "wav"
    /\ built' = [built EXCEPT !.phase = "converted", !.by = "wav_to_flac",
                              !.result = wav_to_flac(built.wav)]
    /\ UNCHANGED windowVars

\* process_wav_to_hex_data of AVAS40_WavConverter.py on the file
call_process_wav_to_hex_data ==
    /\ built.phase = "wav"
    /\ built' = [built EXCEPT !.phase = "converted", !.by = "process_wav_to_hex_data",
                              !.result = process_wav_to_hex_data(built.wav)]
    /\ UNCHANGED windowVars

NextFlac ==
    \/ call_wav_to_flac
    \/ call_process_wav_to_hex_data

SpecFlac == InitFlac /\ [][NextFlac]_vars

(***************************************************************************)
(* The Engine artifacts: the BIN file and the header file written from the *)
(* merged image (merge_hex_data and save_hex_as_header of                   *)
(* AVAS40_WavConverter.py).  A file is held as runs of equal bytes, the     *)
(* header's array as runs of equal tokens.                                  *)
(***************************************************************************)
\* ih[address] for address in range(lo, hi), as runs [n, b]
RawRange(ih, lo, hi) ==
    IF hi <= lo THEN << >>
    ELSE LET brk == SortedSet({x \in IHBreaks(ih) : lo < x /\ x < hi} \cup {lo, hi})
         IN  [k \in 1..(Len(brk) - 1) |->
                 [n |-> brk[k + 1] - brk[k], b |-> IHGet(ih, brk[k])]]

\* f"0x{b:02X}"
ByteToken(b) == <<"0", "x", HexDigits[(b \div 16) + 1], HexDigits[(b % 16) + 1]>>

\* for address in range(ih.minaddr(), ih.maxaddr() + 1): f.write(bytes([ih[address]]))
write_bin_file(ih) == RawRange(ih, IHMinAddr(ih), IHMaxAddr(ih) + 1)

\* variant: the array stops one byte before the last address
save_hex_as_header_ShortByOne(ih) ==
    LET raw_data == RawRange(ih, IHMinAddr(ih), IHMaxAddr(ih))
    IN  [declared |-> BytesLen(raw_data),
         array |-> [k \in DOMAIN raw_data |->
                      [n |-> raw_data[k].n, token |-> ByteToken(raw_data[k].b)]]]

\* save_hex_as_header: "const unsigned char sound_data[len(raw_data)]" and one
\* token per byte of raw_data, 16 to a line
save_hex_as_header(ih) ==
    LET raw_data == RawRange(ih, IHMinAddr(ih), IHMaxAddr(ih) + 1)
    IN  [declared |-> BytesLen(raw_data),
         array |-> [k \in DOMAIN raw_data |->
                      [n |-> raw_data[k].n, token |-> ByteToken(raw_data[k].b)]]]

(***************************************************************************)
(* The mergers on their own: HexMerger.merge_hex_data_list, and            *)
(* ProcessingThread.merge_hex_data of AVAS40_WavConverter.py up to the      *)
(* writing of the files, asked several times of one object.                 *)
(***************************************************************************)
\* the start addresses a merger is made with
MergeStarts == {HexValue(ENGINE_ADDRESS), 65537}

\* the record lists handed to a merge: none, one or two records
MergeLists(sound_type) ==
    LET a == create_hex_data(Payload3, sound_type, WavA.name)
        b == create_hex_data(Payload1, sound_type, WavB.name)
    IN  {<< >>, <<a>>, <<a, b>>}

\* the sound positions handed to a merge: None for Event Sound
MergePositions(sound_type) ==
    IF sound_type = "Event Sound" THEN {<< >>}
    ELSE {[i \in 1..NUM_POSITIONS |-> SENTINEL],
          [i \in 1..NUM_POSITIONS |-> IF i = 2 THEN DEADBEEF ELSE SENTINEL]}

InitMerge ==
    /\ InitWindow
    /\ \E sound_type \in {"Engine Sound", "Event Sound"}, start_address \in MergeStarts :
          built = [phase |-> "merger", sound_type |-> sound_type,
                   start_address |-> start_address, calls |-> << >>]

\* one call and its outcome
MergeCall(by, records, sound_positions, ok, image) ==
    [by |-> by, hex_data_list |-> records, sound_positions |-> sound_positions,
     ok |-> ok, ih |-> image.ih, cur |-> image.cur]

\* variant: the merge writes into the image of the call before
call_merge_hex_data_list_Patching ==
    /\ built.phase = "merger" /\ Len(built.calls) < MaxMerges
    /\ \E records \in MergeLists(built.sound_type),
          sound_positions \in MergePositions(built.sound_type) :
          /\ ~NoHexData(records)
          /\ LET ih == IF built.calls = << >> THEN << >>
                       ELSE built.calls[Len(built.calls)].ih
                 image == IF built.sound_type = "Event Sound"
                          THEN LET h == _add_event_header(ih, built.start_address)
                               IN  _merge_event_data(h.ih, records, h.cur)
                          ELSE LET h == _add_engine_header(ih, built.start_address,
                                                           sound_positions)
                               IN  _merge_engine_data(h.ih, records, h.cur,
                                                      built.start_address)
             IN  built' = [built EXCEPT !.calls = Append(@,
                              MergeCall("merge_hex_data_list", records,
                                        sound_positions, TRUE, image))]
    /\ UNCHANGED windowVars

\* HexMerger.merge_hex_data_list returns the image
call_merge_hex_data_list ==
    /\ built.phase = "merger" /\ Len(built.calls) < MaxMerges
    /\ \E records \in MergeLists(built.sound_type),
          sound_positions \in MergePositions(built.sound_type) :
          /\ ~NoHexData(records)
          /\ built' = [built EXCEPT !.calls = Append(@,
                          MergeCall("merge_hex_data_list", records, sound_positions,
                                    TRUE,
                                    merge_hex_data_list(built.sound_type, built.start_address,
                                                        records, sound_positions)))]
    /\ UNCHANGED windowVars

\* HexMerger.merge_hex_data_list raises AudioFileError("No HEX data to merge")
call_merge_hex_data_list_raises ==
    /\ built.phase = "merger" /\ Len(built.calls) < MaxMerges
    /\ \E records \in MergeLists(built.sound_type),
          sound_positions \in MergePositions(built.sound_type) :
          /\ NoHexData(records)
          /\ built' = [built EXCEPT !.calls = Append(@,
                          MergeCall("merge_hex_data_list", records, sound_positions,
                                    FALSE, [ih |-> << >>, cur |-> built.start_address]))]
    /\ UNCHANGED windowVars

\* ProcessingThread.merge_hex_data of AVAS40_WavConverter.py builds the image
call_merge_hex_data ==
    /\ built.phase = "merger" /\ Len(built.calls) < MaxMerges
    /\ \E records \in MergeLists(built.sound_type),
          sound_positions \in MergePositions(built.sound_type) :
          built' = [built EXCEPT !.calls = Append(@,
                       MergeCall("merge_hex_data", records, sound_positions, TRUE,
                                 merge_hex_data(built.sound_type, built.start_address,
                                                records, sound_positions)))]
    /\ UNCHANGED windowVars

NextMerge ==
    \/ call_merge_hex_data_list
    \/ call_merge_hex_data_list_raises
    \/ call_merge_hex_data

SpecMerge == InitMerge /\ [][NextMerge]_vars

(***************************************************************************)
(* Reading an image                                                        *)
(***************************************************************************)
\* the 32-bit little-endian word stored at a..a+3, as its 16-bit halves
ImageWord(ih, a) ==
    [hi |-> IHGet(ih, a + 2) + 256 * IHGet(ih, a + 3),
     lo |-> IHGet(ih, a) + 256 * IHGet(ih, a + 1)]

\* Offsets at which "byte k of rec" or "byte base + k of image" may change.
\* Both are constant between two consecutive ones, so two byte ranges that
\* agree at these offsets agree everywhere.
ProbeOffsets(image, base, rec) ==
    {k \in ({0} \cup IHBreaks(rec) \cup {b - base : b \in IHBreaks(image)}) :
        0 <= k /\ k <= IHMaxAddr(rec)}

\* the bytes 0..maxaddr of rec stand in image from address base on
RecordAt(image, base, rec) ==
    \A k \in ProbeOffsets(image, base, rec) :
        IHHas(image, base + k) /\ IHGet(image, base + k) = IHGet(rec, k)

IsEngine == params.sound_type = "Engine Sound"
StartAddress == HexValue(params.hex_start_address)

(***************************************************************************)
(* Claims                                                                  *)
(***************************************************************************)

\* C1: every Engine merge yields an image that spans exactly
\* HEX_FILE_SIZE_BYTES (884736) bytes from the start address: the address
\* after the last written byte is startAddress + 884736, whatever the
\* records.
C1_EngineImageHasFixedSize ==
    \A k \in DOMAIN merged :
        IsEngine =>
            /\ IHMinAddr(merged[k].ih) = StartAddress
            /\ IHMaxAddr(merged[k].ih) + 1 = StartAddress + HEX_FILE_SIZE_BYTES
            /\ merged[k].cur = StartAddress + HEX_FILE_SIZE_BYTES

\* the address after the last padded record, as the allocator left it
ContentEnd == current_address

\* C2: when header and padded records extend past startAddress + 884736 the
\* Engine merge fails: no image is returned (none longer than the fixed
\* size) and no artifact is emitted.
C2_OverflowFailsTheMerge ==
    (IsEngine /\ pc = "idle" /\ attempts # << >> /\ Len(hex_data_list) = Len(wav_files)
        /\ ContentEnd > StartAddress + HEX_FILE_SIZE_BYTES)
    => (merged = << >> /\ emitted = {})

\* C3: in every merge of every run, for each i the bytes of record i stand
\* in the image from start_addresses[i] on, the address the allocator
\* computed and the dialog shows.
C3_RecordsAtAllocatedAddresses ==
    /\ \A k \in DOMAIN merged :
          /\ Len(start_addresses) = Len(hex_data_list)
          /\ \A i \in DOMAIN hex_data_list :
                RecordAt(merged[k].ih, start_addresses[i], hex_data_list[i])
    /\ dialog.open => dialog.start_addresses = start_addresses

C3_Witness ==
    /\ merged # << >> /\ Len(hex_data_list) = 2 /\ ~IsEngine
    /\ StartAddress % 4 # 0

\* C4: in every generated image the start address of every record is a
\* multiple of 4, whatever start address the main window accepted.
C4_RecordAddressesAligned ==
    \A i \in DOMAIN start_addresses : start_addresses[i] % 4 = 0

\* C5: in every emitted Engine image (and every merged one) each of the 10
\* position slots of the header holds 0xFFFFFFFF or the start address of one
\* of the run's records.
C5_HeaderSlotsResolve ==
    \A k \in DOMAIN merged :
        IsEngine =>
            \A slot \in 0..(NUM_POSITIONS - 1) :
                LET w == ImageWord(merged[k].ih, StartAddress + 4 + 4 * slot)
                IN  \/ w = [hi |-> 65535, lo |-> 65535]
                    \/ \E i \in DOMAIN start_addresses : w = WordOf(start_addresses[i])

C5_Witness ==
    /\ IsEngine /\ "bin" \in emitted /\ merged # << >>
    /\ ImageWord(merged[1].ih, StartAddress + 4) = WordOf(start_addresses[1])
    /\ ImageWord(merged[1].ih, StartAddress + 8) = [hi |-> 65535, lo |-> 65535]

\* a position text that is not the sentinel and is not the text of any entry
\* of the dialog's address table
NamesNoEntry(text, table) ==
    /\ Upper(text) # SENTINEL
    /\ \A j \in DOMAIN table : Upper(text) # FormatAddress(table[j])

RejectedSlots(d) ==
    {i \in DOMAIN d.position_edits : NamesNoEntry(d.position_edits[i], d.start_addresses)}

\* C6: while some non-sentinel position field of the open dialog names no
\* address of the table, no step commits anything: no positions are applied,
\* nothing is merged or emitted, the dialog's committed sound_positions stay
\* as they were, and the step that raises the error keeps the dialog open
\* and names exactly the rejected slots.
C6_ApplyRejectsTheWholeBatch ==
    [][ (dialog.open /\ RejectedSlots(dialog) # {}) =>
          /\ applied' = applied /\ merged' = merged /\ emitted' = emitted
          /\ dialog'.open => dialog'.sound_positions = dialog.sound_positions
          /\ (dialog'.error # dialog.error /\ dialog'.error # << >>) =>
                /\ dialog'.open
                /\ dialog'.position_edits = dialog.position_edits
                /\ {dialog'.error[i] : i \in DOMAIN dialog'.error}
                      = {position_labels[i] : i \in RejectedSlots(dialog)} ]_vars

C6_Witness ==
    /\ dialog.open
    /\ dialog.error = <<"Sound F2">>
    /\ dialog.position_edits[1] = FormatAddress(dialog.start_addresses[1])
    /\ dialog.position_edits[2] = DEADBEEF
    /\ applied = << >> /\ merged = << >> /\ emitted = {}

\* an Engine run has merged or emitted only with applied positions, the ones
\* in the image; an Event run has no dialog, open or requested
C7_State ==
    /\ (IsEngine /\ (merged # << >> \/ emitted # {})) =>
          /\ applied # << >>
          /\ \A k \in DOMAIN merged : merged[k].sound_positions = applied
    /\ ~IsEngine =>
          /\ ~dialog.open /\ applied = << >>
          /\ \A i \in DOMAIN sigq : sigq[i].sig # "show_info_dialog"

\* C7: an Engine run merges and emits only after an accepted Apply, in the
\* step that closes the dialog, with the positions that Apply handed over;
\* an Event run opens no dialog and goes from the conversion straight to the
\* merge.
C7_EngineWaitsForApply ==
    /\ []C7_State
    /\ [][ (~IsEngine /\ pc = "branch" /\ pc' # pc) => Len(merged') = Len(merged) + 1 ]_vars
    /\ [][ (IsEngine /\ merged' # merged /\ merged' # << >>) =>
              (dialog.open /\ ~dialog'.open /\ applied' # << >>) ]_vars

C7_Witness ==
    /\ IsEngine /\ emitted = {"bin", "header"}
    /\ applied # << >> /\ applied[1] # SENTINEL
    /\ merged # << >>

\* what the converter accepts: 24 or 48 kHz, an encoder that exits with 0
\* and a non-empty encoded stream
Convertible(wav) ==
    wav.rate \in {24000, 48000} /\ wav.exe /\ wav.rc = 0 /\ wav.out # << >>

\* C8: the files are attempted in order, each once; an attempt fails exactly
\* when the file is not convertible, and a failed attempt is the last one of
\* the run: the run is over, nothing was merged, no artifact written, no
\* dialog requested, and the failure naming the file is in the log.
C8_FailureStopsTheRun ==
    /\ Len(attempts) <= Len(wav_files)
    /\ \A k \in DOMAIN attempts :
          /\ attempts[k].file = wav_files[k].name
          /\ attempts[k].ok = Convertible(wav_files[k])
          /\ ~attempts[k].ok =>
                /\ k = Len(attempts)
                /\ pc = "idle"
                /\ merged = << >> /\ emitted = {} /\ applied = << >>
                /\ ~dialog.open
                /\ \A i \in DOMAIN sigq : sigq[i].sig # "show_info_dialog"
                /\ \E m \in DOMAIN log :
                      /\ log[m].file = attempts[k].file
                      /\ log[m].msg \in {"Conversion Failed", "Unexpected error processing"}

C8_Witness ==
    /\ Len(wav_files) = 3
    /\ Len(attempts) = 2 /\ attempts[1].ok /\ ~attempts[2].ok
    /\ pc = "idle" /\ runs = MaxRuns

\* no listed name ends in ".wav"
NoWavListed(folder) ==
    \A i \in DOMAIN Folders[folder] :
        LET name == Folders[folder][i].name
        IN  ~(Len(name) >= 4 /\ SubSeq(name, Len(name) - 3, Len(name)) = <<46, 119, 97, 118>>)

\* C9: a run on a directory without *.wav files reports no_wav_files and is
\* over after the listing: nothing is attempted, merged or emitted.
C9_NoInputFiles ==
    (runs > 0 /\ FolderExists(params.input_folder) /\ NoWavListed(params.input_folder)
        /\ pc # "find")
    => /\ pc = "idle"
       /\ wav_files = << >> /\ attempts = << >> /\ applied = << >>
       /\ merged = << >> /\ emitted = {}
       /\ ~dialog.open
       /\ \/ buttons_enabled
          \/ \E i \in DOMAIN sigq : sigq[i].sig = "no_wav_files"

C9_Witness ==
    /\ runs > 0 /\ params.input_folder = "notes" /\ pc = "idle"
    /\ sigq = <<[sig |-> "no_wav_files"]>> /\ ~buttons_enabled

\* the value of bytes 0..3 of a record, least significant byte first
SizeField(ih) ==
    IHGet(ih, 0) + 256 * IHGet(ih, 1) + 65536 * IHGet(ih, 2) + 16777216 * IHGet(ih, 3)

\* C10: bytes 0..3 of every record create_hex_data returns hold, least
\* significant byte first, the length of the payload, which stands in the
\* record at the data offset of its sound type.
C10_SizeFieldIsPayloadLength ==
    built.phase = "returned" =>
        /\ \A k \in 0..3 : IHHas(built.hex_data, k)
        /\ SizeField(built.hex_data) = BytesLen(built.flac_data)
        /\ RecordAt(built.hex_data,
                    IF built.sound_type = "Engine Sound"
                    THEN ENGINE_FLAC_DATA_OFFSET ELSE EVENT_FLAC_DATA_OFFSET,
                    WriteBytes(<< >>, 0, built.flac_data))

C10_Witness ==
    /\ built.phase = "returned" /\ built.sound_type = "Event Sound"
    /\ BytesLen(built.flac_data) = 16777216 + 256
    /\ IHGet(built.hex_data, 3) = 1 /\ IHGet(built.hex_data, 1) = 1

\* C11: an Engine record has, for every file name and non-empty payload, the
\* name and then NULs in exactly the 80 bytes at offsets 4..83, the payload
\* intact from offset 0x54 on, and 84 + len(payload) bytes in all.
C11_EngineRecordLayout ==
    (built.phase = "returned" /\ built.sound_type = "Engine Sound") =>
        LET enc == EncodeUtf8(built.wav_filename)
            rec == built.hex_data
            size == ENGINE_FLAC_DATA_OFFSET + BytesLen(built.flac_data)
        IN  /\ \A k \in 0..(FILENAME_BUFFER_SIZE - 1) :
                  /\ IHHas(rec, ENGINE_FILENAME_OFFSET + k)
                  /\ IHGet(rec, ENGINE_FILENAME_OFFSET + k)
                        = IF k < Len(enc) THEN enc[k + 1].b ELSE 0
            /\ RecordAt(rec, ENGINE_FLAC_DATA_OFFSET, WriteBytes(<< >>, 0, built.flac_data))
            /\ IHLen(rec) = size
            /\ IHMaxAddr(rec) + 1 = size

\* a long name with a short payload: bytes of the name lie behind the payload
C11_Witness ==
    /\ built.phase = "returned" /\ built.sound_type = "Engine Sound"
    /\ built.wav_filename = LongName
    /\ BytesLen(built.flac_data) = 1
    /\ IHLen(built.hex_data) = ENGINE_FILENAME_OFFSET + Len(LongName)
\* the frames of a WAV read or written: their number, and the i-th of them
FrameSize(wav) == wav.sample_width * wav.n_channels
FrameCount(wav) == Len(wav.frames) \div FrameSize(wav)
Frame(wav, i) == SubSeq(wav.frames, i * FrameSize(wav) + 1, (i + 1) * FrameSize(wav))

\* the file has been handed to the resampler (a readable 48 kHz file, encoder found)
Resampled ==
    /\ built.phase = "converted"
    /\ built.wav.rate = 48000
    /\ built.result.stdin # NoWavData

\* C12: a readable file whose sample rate is neither 24000 nor 48000 is
\* refused with an error that names the rate, and the encoder is not invoked
\* for it.
C12_OnlyTwoRatesAccepted ==
    (built.phase = "converted" /\ built.wav.rate >= 0
        /\ built.wav.rate \notin {24000, 48000}) =>
        /\ ~built.result.ok
        /\ built.result.error = "Unsupported sample rate"
        /\ built.result.named = built.wav.rate
        /\ built.result.encoder = "none"

C12_Witness ==
    /\ built.phase = "converted" /\ built.by = "wav_to_flac"
    /\ built.wav.rate = 44100 /\ built.wav.exe
    /\ built.result.error = "Unsupported sample rate"
    /\ built.result.named = 44100

\* C13: a 48 kHz input of N frames, N even or odd, leaves the resampler as
\* exactly floor(N/2) frames.
C13_ResamplerHalvesRoundingDown ==
    Resampled =>
        Len(built.result.stdin.frames) = (FrameCount(built.wav) \div 2) * FrameSize(built.wav)

C13_Witness ==
    /\ Resampled /\ built.by = "wav_to_flac"
    /\ FrameCount(built.wav) = 3
    /\ FrameCount(built.result.stdin) = 2

\* C20: a 48 kHz input of 2k frames leaves the resampler as k frames, output
\* frame j being input frame 2j byte for byte, with the channel count and the
\* sample width of the input.
C20_EvenInputKeepsEveryOtherFrame ==
    (Resampled /\ FrameCount(built.wav) % 2 = 0) =>
        LET out == built.result.stdin
            k == FrameCount(built.wav) \div 2
        IN  /\ out.n_channels = built.wav.n_channels
            /\ out.sample_width = built.wav.sample_width
            /\ Len(out.frames) = k * FrameSize(built.wav)
            /\ \A j \in 0..(k - 1) : Frame(out, j) = Frame(built.wav, 2 * j)

C20_Witness ==
    /\ Resampled /\ built.by = "wav_to_flac"
    /\ FrameCount(built.wav) = 4
    /\ built.wav.n_channels = 2 /\ built.wav.sample_width = 3
    /\ FrameCount(built.result.stdin) = 2
    /\ Frame(built.result.stdin, 1) = Frame(built.wav, 2)
    /\ Frame(built.result.stdin, 1) # Frame(built.wav, 1)

\* the bytes a C compiler reads from the header's array
HeaderBytes(header) ==
    [k \in DOMAIN header.array |->
        [n |-> header.array[k].n, b |-> HexValue(SubSeq(header.array[k].token, 3, 4))]]

\* the BIN file and the header's array written from ih hold the same bytes,
\* those of ih from its lowest to its highest address
SameBytes(ih) ==
    LET bin == write_bin_file(ih)
        header == save_hex_as_header(ih)
    IN  /\ \A i \in DOMAIN header.array :
              SubSeq(header.array[i].token, 1, 2) = <<"0", "x">>
        /\ HeaderBytes(header) = bin
        /\ header.declared = BytesLen(bin)
        /\ BytesLen(bin) = IHMaxAddr(ih) - IHMinAddr(ih) + 1
        /\ RecordAt(ih, IHMinAddr(ih), WriteBytes(<< >>, 0, bin))

RECURSIVE PaddedSizes(_, _)
PaddedSizes(records, addr) ==
    IF records = << >> THEN 0
    ELSE LET size == IHMaxAddr(Head(records)) - IHMinAddr(Head(records)) + 1
             pad == (WORD_ALIGNMENT - ((addr + size) % WORD_ALIGNMENT)) % WORD_ALIGNMENT
         IN  size + pad + PaddedSizes(Tail(records), addr + size + pad)

\* the image holds exactly total bytes, all of them from start on
SizedFrom(image, start, total) ==
    /\ IHMinAddr(image.ih) = start
    /\ IHMaxAddr(image.ih) = start + total - 1
    /\ IHLen(image.ih) = total
    /\ image.cur = start + total

\* C15: every Event merge yields an image of 8 bytes plus, for each record, its
\* size and its trailing padding of 0..3 bytes up to the next multiple of 4;
\* nothing caps the image or fills it further.
C15_EventImageSize ==
    [][ (~IsEngine /\ merged' # merged /\ merged' # << >>) =>
            SizedFrom(merged'[Len(merged')], StartAddress,
                      EVENT_HEADER_SIZE
                        + PaddedSizes(hex_data_list, StartAddress + EVENT_HEADER_SIZE)) ]_vars

C15_Witness ==
    /\ ~IsEngine /\ merged # << >> /\ Len(hex_data_list) = 2
    /\ IHLen(merged[1].ih) = EVENT_HEADER_SIZE + 8 + 8
    /\ IHLen(hex_data_list[1]) = 7 /\ IHLen(hex_data_list[2]) = 5

\* C16: an Engine image begins at the start address with the bytes A5 5A A5 5A
\* of the magic key, and slot i (i = 0..9, in the order F1, F2, F3, S1, S2, S3,
\* C1, C2, R1, R2) at start + 4 + 4i holds, least significant byte first, the
\* value of the i-th confirmed position.
C16_EngineHeaderLayout ==
    IsEngine =>
        \A k \in DOMAIN merged :
            /\ \A b \in 0..3 : IHHas(merged[k].ih, StartAddress + b)
            /\ <<IHGet(merged[k].ih, StartAddress), IHGet(merged[k].ih, StartAddress + 1),
                  IHGet(merged[k].ih, StartAddress + 2), IHGet(merged[k].ih, StartAddress + 3)>>
                  = <<165, 90, 165, 90>>
            /\ merged[k].sound_positions = applied
            /\ Len(applied) = Len(position_labels)
            /\ \A slot \in 0..(NUM_POSITIONS - 1) :
                  ImageWord(merged[k].ih, StartAddress + 4 + 4 * slot)
                      = HexWord(applied[slot + 1])

C16_Witness ==
    /\ IsEngine /\ merged # << >> /\ Len(start_addresses) = 2
    /\ applied[1] = FormatAddress(start_addresses[2])
    /\ applied[2] = FormatAddress(start_addresses[1])
    /\ applied[NUM_POSITIONS] = SENTINEL
    /\ ImageWord(merged[1].ih, StartAddress + 4) = WordOf(start_addresses[2])

\* C17: in every Engine merge the position list has 10 entries, the header is
\* 44 bytes, and the first record stands at start + 44, the address the
\* allocator assumed; in every Event merge the first record stands at start + 8.
C17_FirstRecordFollowsTheHeader ==
    \A k \in DOMAIN merged :
        LET header_size == IF IsEngine THEN ENGINE_HEADER_SIZE ELSE EVENT_HEADER_SIZE
        IN  /\ IsEngine => Len(merged[k].sound_positions) = NUM_POSITIONS
            /\ IsEngine => 4 + 4 * Len(merged[k].sound_positions) = ENGINE_HEADER_SIZE
            /\ hex_data_list # << >>
            /\ start_addresses[1] = StartAddress + header_size
            /\ RecordAt(merged[k].ih, StartAddress + header_size, hex_data_list[1])
            /\ IHMinAddr(merged[k].ih) = StartAddress

C17_Witness ==
    /\ IsEngine /\ merged # << >>
    /\ start_addresses[1] = StartAddress + 44
    /\ ImageWord(merged[1].ih, StartAddress + 44)
          = [hi |-> 0, lo |-> BytesLen(Payload3)]

\* C18: the allocated record addresses are strictly increasing in the order the
\* files are processed, so a position typed into the dialog matches at most
\* one file.
C18_AddressesStrictlyIncrease ==
    /\ \A i, j \in DOMAIN start_addresses :
          i < j => start_addresses[i] < start_addresses[j]
    /\ dialog.open =>
          \A slot \in DOMAIN dialog.position_edits :
              LET position_value == Upper(dialog.position_edits[slot])
              IN  ~HexInvalid(position_value) =>
                      Cardinality({j \in DOMAIN dialog.start_addresses :
                          WordOf(dialog.start_addresses[j]) = HexWord(position_value)}) <= 1

C18_Witness ==
    /\ dialog.open /\ Len(dialog.start_addresses) = 2
    /\ dialog.start_addresses[1] < dialog.start_addresses[2]
    /\ dialog.position_edits[1] = FormatAddress(dialog.start_addresses[2])
    /\ dialog.position_edits[2] = FormatAddress(dialog.start_addresses[1])

\* the encoder ran on the file, returned 0 and wrote nothing
ZeroOutput(wav) ==
    wav.rate \in {24000, 48000} /\ wav.exe /\ wav.rc = 0 /\ wav.out = << >>

\* C19: a file for which the encoder returns no bytes, on the 48 kHz (stdin)
\* path or on the 24 kHz (file) path, never becomes a record: its conversion
\* fails, the failure naming the file is logged as a conversion failure, and
\* the run is over with nothing merged; every record of a run has a payload.
C19_EmptyEncoderOutputFailsTheRun ==
    /\ \A k \in DOMAIN attempts :
          ZeroOutput(wav_files[k]) =>
              /\ ~attempts[k].ok
              /\ k = Len(attempts)
              /\ Len(hex_data_list) = k - 1 /\ Len(start_addresses) = k - 1
              /\ pc = "idle" /\ ~dialog.open
              /\ merged = << >> /\ emitted = {}
              /\ \E m \in DOMAIN log :
                    log[m].file = wav_files[k].name /\ log[m].msg = "Conversion Failed"
    /\ \A i \in DOMAIN hex_data_list :
          /\ ImageWord(hex_data_list[i], FLAC_SIZE_OFFSET) # [hi |-> 0, lo |-> 0]
          /\ IHMaxAddr(hex_data_list[i]) >= EVENT_FLAC_DATA_OFFSET

C19_Witness ==
    /\ Len(attempts) = 2 /\ attempts[1].ok /\ ~attempts[2].ok
    /\ wav_files[2].rate = 24000 /\ ZeroOutput(wav_files[2])
    /\ Len(hex_data_list) = 1 /\ pc = "idle"

\* the size of a record, and the first address after record i of the run
RecordSize(rec) == IHMaxAddr(rec) - IHMinAddr(rec) + 1
RecordEnd(i) == start_addresses[i] + RecordSize(hex_data_list[i])

\* the address belongs to the header or to a record of the run
InHeaderOrRecord(a) ==
    \/ a < StartAddress + (IF IsEngine THEN ENGINE_HEADER_SIZE ELSE EVENT_HEADER_SIZE)
    \/ \E i \in DOMAIN hex_data_list : start_addresses[i] <= a /\ a < RecordEnd(i)

\* every byte of lo..hi-1 is assigned in ih and is 0xFF
AllFill(ih, lo, hi) ==
    \A a \in {lo} \cup {x \in IHBreaks(ih) : lo < x /\ x < hi} :
        a < hi => (IHHas(ih, a) /\ IHGet(ih, a) = 255)

\* in the image, from its start to its final write address, every byte outside
\* the header and the records is an assigned 0xFF; each record is followed by
\* 0xFF up to the next multiple of 4, where the next record or the end stands
FillOutsideRecords(image) ==
    /\ \A a \in {x \in IHBreaks(image.ih) \cup {RecordEnd(i) : i \in DOMAIN hex_data_list} :
                    StartAddress <= x /\ x < image.cur} :
          InHeaderOrRecord(a) \/ (IHHas(image.ih, a) /\ IHGet(image.ih, a) = 255)
    /\ \A i \in DOMAIN hex_data_list :
          LET padded == _align_address(RecordEnd(i))
          IN  /\ AllFill(image.ih, RecordEnd(i), padded)
              /\ IF i < Len(hex_data_list) THEN start_addresses[i + 1] = padded
                  ELSE IF IsEngine THEN AllFill(image.ih, padded, image.cur)
                  ELSE image.cur = padded

\* C21: in every merged image each byte that belongs neither to the header nor
\* to a record is 0xFF: after every record, not only the last, 0xFF is written
\* up to the next multiple of 4, and the Engine fill up to the end is 0xFF.
C21_OnlyFillOutsideRecords ==
    [][ (merged' # merged /\ merged' # << >>) =>
            FillOutsideRecords(merged'[Len(merged')]) ]_vars

C21_Witness ==
    /\ IsEngine /\ merged # << >> /\ Len(hex_data_list) = 2
    /\ RecordEnd(1) % WORD_ALIGNMENT = 3
    /\ start_addresses[2] = RecordEnd(1) + 1
    /\ IHGet(merged[1].ih, RecordEnd(1)) = 255
    /\ IHGet(merged[1].ih, StartAddress + HEX_FILE_SIZE_BYTES - 1) = 255

\* two images hold the same bytes at the same addresses and end alike
SameImage(x, y) ==
    /\ x.cur = y.cur
    /\ (x.ih = << >>) = (y.ih = << >>)
    /\ \A a \in IHBreaks(x.ih) \cup IHBreaks(y.ih) :
          /\ IHHas(x.ih, a) = IHHas(y.ih, a)
          /\ IHHas(x.ih, a) => IHGet(x.ih, a) = IHGet(y.ih, a)

\* the calls of merge_hex_data_list that returned
Merges == {i \in DOMAIN built.calls :
              built.calls[i].by = "merge_hex_data_list" /\ built.calls[i].ok}

WorkerPositions == {"find", "prepare", "convert_start", "convert", "branch"}

WorkerStep ==
    /\ pc \in WorkerPositions
    /\ pc' \in WorkerPositions \cup {"idle"}
    /\ file_index' \in {file_index, file_index + 1, 1}

\* the slots connected in MainWindow.__init__, run by the event loop
EventLoopStep ==
    \/ enable_buttons
    \/ save_log
    \/ handle_no_wav_files
    \/ show_sound_info_dialog

\* dialog.exec_() returns: Apply with valid positions, Cancel or the close box
DialogClose == dialog.open /\ dialog' = NoDialog

SpecLive ==
    /\ Init /\ [][Next]_vars
    /\ WF_<<pc, file_index>>(WorkerStep)
    /\ WF_vars(EventLoopStep)
    /\ WF_dialog(DialogClose)

\* C25: every run started by start_processing, which disables the buttons,
\* eventually has its end signalled so that the buttons are enabled again,
\* whatever the outcome of the run.
C25_EveryRunEnds == ~buttons_enabled ~> buttons_enabled

\* a run whose run() has returned after a failed conversion, with nothing
\* queued and no dialog, and the buttons still disabled
C25_Witness ==
    /\ pc = "idle" /\ ~buttons_enabled /\ ~dialog.open /\ sigq = << >>
    /\ attempts # << >> /\ ~attempts[Len(attempts)].ok

\* C29: an Engine run has written either both artifacts, the binary file and
\* the firmware header, or none of them.
C29_BothEngineArtifactsOrNone ==
    IsEngine => emitted \in {{}, {"bin", "header"}}

\* an Engine run whose save failed after the binary file was written
C29_Witness ==
    /\ IsEngine /\ merged # << >>
    /\ emitted = {"bin"}
    /\ log[Len(log)] = Msg("Error saving engine files", << >>)

(***************************************************************************)
(* SoundInfoDialog and MainWindow.show_sound_info_dialog of                *)
(* AVAS40_WavConverter.py, from the moment the dialog of an Engine run is  *)
(* executed (the buttons were disabled by start_processing).               *)
(***************************************************************************)
\* self.start_addresses as run() of AVAS40_WavConverter.py fills it
RECURSIVE LegacyStartAddresses(_, _)
LegacyStartAddresses(address, records) ==
    IF records = << >> THEN << >>
    ELSE <<address>>
         \o LegacyStartAddresses(NextFileAddress(address, Head(records)), Tail(records))

InitLegacy ==
    /\ InitWindow
    /\ \E records \in MergeLists("Engine Sound") \ {<< >>}, start_address \in MergeStarts :
          built = [phase |-> "SoundInfoDialog",
                   start_address |-> start_address,
                   hex_data_list |-> records,
                   start_addresses |->
                       LegacyStartAddresses(start_address + ENGINE_HEADER_SIZE, records),
                   open |-> TRUE,
                   position_edits |-> [i \in 1..NUM_POSITIONS |-> SENTINEL],
                   has_error |-> FALSE,
                   closed_by |-> "",
                   merged |-> << >>,
                   emitted |-> {},
                   buttons_enabled |-> FALSE]

\* the user types into one of the position fields
SoundInfoDialog_edit ==
    /\ built.phase = "SoundInfoDialog" /\ built.open
    /\ \E i \in 1..MaxEditedSlot, text \in PositionTexts(built.start_addresses) :
          /\ text # built.position_edits[i]
          /\ built' = [built EXCEPT !.position_edits[i] = text]
    /\ UNCHANGED windowVars

\* exec_() returned Accepted: show_sound_info_dialog calls merge_hex_data, which
\* writes the binary file and then the header, and enables the buttons (in the
\* except branch as well)
LegacyApplied(by) ==
    \E binSaved, headerSaved \in BOOLEAN :
        built' = [built EXCEPT
                    !.open = FALSE,
                    !.has_error = FALSE,
                    !.closed_by = by,
                    !.merged = Append(@, get_sound_positions(built.position_edits)),
                    !.emitted = IF ~binSaved THEN @
                                ELSE IF ~headerSaved THEN @ \cup {"bin"}
                                ELSE @ \cup {"bin", "header"},
                    !.buttons_enabled = TRUE]

\* the Apply button: SoundInfoDialog.accept
SoundInfoDialog_accept ==
    /\ built.phase = "SoundInfoDialog" /\ built.open
    /\ IF unmatched_positions(built.position_edits, built.start_addresses) # << >>
       THEN built' = [built EXCEPT !.has_error = TRUE]
       ELSE LegacyApplied("Apply")
    /\ UNCHANGED windowVars

\* the close box: SoundInfoDialog.closeEvent calls self.accept() and accepts the
\* event; with unmatched positions accept() returns early, the window closes
\* and exec_() returns Rejected
SoundInfoDialog_closeEvent ==
    /\ built.phase = "SoundInfoDialog" /\ built.open
    /\ IF unmatched_positions(built.position_edits, built.start_addresses) # << >>
       THEN built' = [built EXCEPT !.has_error = TRUE, !.open = FALSE,
                                   !.closed_by = "close"]
       ELSE LegacyApplied("close")
    /\ UNCHANGED windowVars

\* the Escape key: QDialog.reject, exec_() returns Rejected and
\* show_sound_info_dialog does nothing
SoundInfoDialog_reject ==
    /\ built.phase = "SoundInfoDialog" /\ built.open
    /\ built' = [built EXCEPT !.open = FALSE, !.closed_by = "cancel"]
    /\ UNCHANGED windowVars

NextLegacy ==
    \/ SoundInfoDialog_edit
    \/ SoundInfoDialog_accept
    \/ SoundInfoDialog_closeEvent
    \/ SoundInfoDialog_reject

SpecLegacy == InitLegacy /\ [][NextLegacy]_vars

\* a step that closes the dialog of AVAS40_WavConverter.py otherwise than by
\* Apply: nothing merged, nothing written, the buttons enabled again
LegacyCloseEndsTheRun(before, after) ==
    (before.open /\ ~after.open /\ after.closed_by # "Apply") =>
        /\ after.merged = before.merged
        /\ after.emitted = before.emitted
        /\ after.buttons_enabled

\* C27: cancelling or closing the Engine sound-position dialog ends the run
\* with no merge and no artifact and with the end of the run signalled; a
\* close is never treated as an Apply.
C27_CloseIsNeverAnApply ==
    [][ built.phase = "SoundInfoDialog" => LegacyCloseEndsTheRun(built, built') ]_vars

\* the dialog of AVAS40_WavConverter.py was closed by its close box with
\* valid positions, and a merge with the edited positions was made
C27_Witness ==
    /\ built.phase = "SoundInfoDialog"
    /\ ~built.open /\ built.closed_by = "close"
    /\ Len(built.merged) = 1 /\ built.merged[1][2] # SENTINEL
    /\ built.emitted = {"bin", "header"}

\* the same for the dialog of processing.py: Cancel and the close box end the
\* run in the step that closes the dialog
C27_RefactoredCloseEndsTheRun ==
    [][ (dialog.open /\ ~dialog'.open /\ applied' = << >>) =>
           (merged' = merged /\ emitted' = emitted /\ emitted' = {}
            /\ buttons_enabled' /\ pc' = "idle") ]_vars

\* the address field as update_fields leaves it for the selected sound type
EngineFieldFixed ==
    engine_radio => start_address_edit = [text |-> ENGINE_ADDRESS, enabled |-> FALSE]

\* C24: whatever toggles and edits came before, a run started with Engine
\* selected receives the start address 10118000 and the field is not editable
\* while Engine is selected; selecting Event sets the field to 00001000 and
\* makes it editable.
C24_EngineAddressIsFixed ==
    /\ []EngineFieldFixed
    /\ [][ (runs' # runs /\ engine_radio) =>
              (params'.sound_type = "Engine Sound"
               /\ params'.hex_start_address = ENGINE_ADDRESS) ]_vars
    /\ [][ (engine_radio /\ ~engine_radio') =>
              start_address_edit' = [text |-> EVENT_ADDRESS, enabled |-> TRUE] ]_vars

\* a second run, started with Engine selected, after the first one was started
\* with Event selected and an edited address
C24_Witness ==
    /\ runs = 2 /\ pc = "find" /\ engine_radio
    /\ params.sound_type = "Engine Sound"
    /\ params.hex_start_address = ENGINE_ADDRESS
    /\ hex_data_list # << >>
    /\ start_addresses[1] = HexValue(<<"2", "f", "0">>) + EVENT_HEADER_SIZE

\* no address is assigned by two entries of the assignment log
NoOverwrite(ih) ==
    \A i, j \in DOMAIN ih :
        i < j => (ih[i].addr + ih[i].n <= ih[j].addr \/ ih[j].addr + ih[j].n <= ih[i].addr)

\* every address of lo..hi-1 is assigned, and none outside
NoGap(ih, lo, hi) ==
    /\ \A i \in DOMAIN ih : lo <= ih[i].addr /\ ih[i].addr + ih[i].n <= hi
    /\ \A a \in {lo} \cup {x \in IHBreaks(ih) : lo < x /\ x < hi} : IHHas(ih, a)

\* byte k of a byte string given as runs
RECURSIVE RunByte(_, _)
RunByte(data, k) ==
    IF k < Head(data).n THEN Head(data).b ELSE RunByte(Tail(data), k - Head(data).n)

\* the binary dump holds, at offset a - lo, the byte of every address a
DumpFollowsImage(ih, lo, hi) ==
    LET dump == write_bin_file(ih)
    IN  /\ BytesLen(dump) = hi - lo
        /\ \A a \in {lo, hi - 1} \cup {x \in IHBreaks(ih) : lo < x /\ x < hi} :
              RunByte(dump, a - lo) = IHGet(ih, a)

DenseAndWrittenOnce(image, start_address) ==
    /\ image.cur > start_address
    /\ NoOverwrite(image.ih)
    /\ NoGap(image.ih, start_address, image.cur)
    /\ IHMinAddr(image.ih) = start_address
    /\ IHMaxAddr(image.ih) = image.cur - 1
    /\ DumpFollowsImage(image.ih, start_address, image.cur)

\* C26: the merged image is dense and written once: every address from the
\* start address up to the final write address is assigned exactly one time,
\* so the least address of the image is the start address and byte k of the
\* binary dump is the byte at start address + k (checked on the image of the
\* latest call of either merger).
C26_MergedImageDenseWrittenOnce ==
    (built.phase = "merger" /\ built.calls # << >>) =>
        (built.calls[Len(built.calls)].ok =>
            DenseAndWrittenOnce(built.calls[Len(built.calls)], built.start_address))

\* both mergers have built an image of two records, the first of which needs
\* padding, from a start address that is not a multiple of four
C26_Witness ==
    /\ built.phase = "merger" /\ built.sound_type = "Event Sound"
    /\ built.start_address % WORD_ALIGNMENT # 0
    /\ Len(built.calls) = 2
    /\ built.calls[1].by = "merge_hex_data_list" /\ built.calls[2].by = "merge_hex_data"
    /\ \A i \in 1..2 : Len(built.calls[i].hex_data_list) = 2
    /\ built.calls[1].ok
    /\ built.calls[1].cur > built.start_address + EVENT_HEADER_SIZE

\* len(start_addresses) == len(hex_data_list)
ListsAligned == Len(start_addresses) = Len(hex_data_list)

\* len(hex_data_list) <= len(wav_files)
ListsWithinListing == Len(hex_data_list) <= Len(wav_files)

\* the conversion of the current run is under way or done and the run has not
\* ended: the loop, the branch after it, the dialog requested or open
ConversionStarted ==
    \/ pc \in {"convert", "branch"}
    \/ dialog.open
    \/ \E i \in DOMAIN sigq : sigq[i].sig = "show_info_dialog"

\* the lists hold what this run converted, file by file: one successful
\* attempt of this run per listed file, its record and its address
OwnConversion ==
    /\ Len(hex_data_list) = Len(wav_files)
    /\ Len(start_addresses) = Len(wav_files)
    /\ Len(attempts) = Len(wav_files)
    /\ \A i \in DOMAIN wav_files :
          /\ attempts[i] = [file |-> wav_files[i].name, ok |-> TRUE]
          /\ hex_data_list[i] = ProcessSingle(wav_files[i], params.sound_type).hex_data
    /\ start_addresses # << >> =>
          start_addresses[1] = _calculate_initial_address(params.sound_type, StartAddress)
    /\ \A i \in 1..(Len(start_addresses) - 1) :
          start_addresses[i + 1] = NextFileAddress(start_addresses[i], hex_data_list[i])

\* a merge is made, or the dialog is requested, with this run's own lists
MergeAndDialogUseOwnConversion ==
    /\ [][ (merged' # merged /\ merged' # << >>) => OwnConversion ]_vars
    /\ [][ (pc = "branch" /\ pc' # pc) => OwnConversion ]_vars
    /\ [][ (~dialog.open /\ dialog'.open) =>
              (OwnConversion /\ dialog'.start_addresses = start_addresses) ]_vars

\* C28 as stated: across runs a merge takes only the records and addresses of
\* its own run's conversion; at every point len(start_addresses) ==
\* len(hex_data_list) <= len(wav_files), with equality whenever a merge or the
\* dialog starts.
C28_ListsWithinListingAtEveryPoint ==
    /\ [](ListsAligned /\ ListsWithinListing)
    /\ MergeAndDialogUseOwnConversion

\* C28: across runs a merge takes only the records and addresses of its own
\* run's conversion; len(start_addresses) == len(hex_data_list) at every
\* point, their length is at most len(wav_files) from the start of a run's
\* conversion until the run ends, and equals it whenever a merge or the dialog
\* starts.
C28_RunMergesItsOwnConversion ==
    /\ []ListsAligned
    /\ [](ConversionStarted => ListsWithinListing)
    /\ MergeAndDialogUseOwnConversion

\* a second run has merged, with lists that hold the single record of its own
\* listing
C28_Witness ==
    /\ runs = 2 /\ merged # << >>
    /\ Len(wav_files) = 1 /\ Len(hex_data_list) = 1 /\ Len(start_addresses) = 1
    /\ wav_files[1] = WavFit

\* what the worker has handed to the GUI thread and the GUI thread holds: the
\* queued signals and the dialog carry neither the file list nor the address
\* list
NoListCrossesTheBoundary ==
    /\ \A i \in DOMAIN sigq : sigq[i].sig \in {"finished", "save_log", "no_wav_files"}
    /\ dialog.wav_files = << >> /\ dialog.start_addresses = << >>

\* C23: the record list, the address list and the file list are read and
\* written by the worker only, in Engine mode and its second phase as well:
\* the lists are not handed to the GUI thread, and a merge, which reads the
\* record list, is made while the worker is inside run().
C23_WorkerOwnsTheLists ==
    /\ []NoListCrossesTheBoundary
    /\ [][ (merged' # merged /\ merged' # << >>) => pc \in WorkerPositions ]_vars

\* run() has returned and the GUI thread, on Apply, has merged the record list
\* of the worker; the dialog had been given the worker's file and address lists
C23_Witness ==
    /\ IsEngine /\ pc = "idle" /\ ~dialog.open
    /\ applied # << >> /\ merged # << >>
    /\ Len(hex_data_list) = 2

====
